---- MODULE Spec2Model ----
(***************************************************************************)
(* RISC-V virtual prototype: the pipelined cores.                          *)
(*                                                                         *)
(*   c64  CPURV64P6_Cycle  (src/src/CPU_P64_6_Cycle.cpp)  6-stage, ROB     *)
(*   c32  CPURV32P6_Cycle  (src/src/CPU_P32_6_Cycle.cpp)  6-stage, in-order*)
(*   p2   CPURV64P2        (src/src/CPU_P64_2.cpp)        2-stage, LT      *)
(*   pc2  CPURV64P2_Cycle  (src/src/CPU_P64_2_Cycle.cpp)  2-stage, cycle   *)
(*   at2  CPURV32P2_AT     (src/src/CPU_P32_2_AT.cpp)     2-stage, AT      *)
(*                                                                         *)
(* The platform is built with one CPU type; core names the one running.    *)
(*                                                                         *)
(* An instruction word is the record of its six bit fields                 *)
(*   funct7[31:25] rs2[24:20] rs1[19:15] funct3[14:12] rd[11:7] opcode[6:0]*)
(* which together are exactly the 32 bits of the word.  Register values    *)
(* are integers; the programs explored keep every value far below 2^31, so *)
(* no result wraps at XLEN.  Fields named g_* are history variables: they  *)
(* record what happened and are never read by the modelled code.           *)
(***************************************************************************)
EXTENDS Integers, Sequences, FiniteSets, TLC

VARIABLES imem, core, c64, c32, p2, pc2, at2, MainMemory, dma, plat, g_bus

busvars == <<MainMemory, dma, plat, g_bus>>

vars == <<imem, core, c64, c32, p2, pc2, at2, MainMemory, dma, plat, g_bus>>

(***************************************************************************)
(* Bounds of the exploration                                               *)
(***************************************************************************)
ProgLen == 3
MaxCycles == 40
ProgLen32 == 4
MaxCycles32 == 14

\* Retirements explored per flush of the reorder buffer on its own.
MaxRobRetires == 3
MaxSteps2 == 8

(***************************************************************************)
(* Program constants                                                       *)
(***************************************************************************)
ROB_SIZE == 32
SB_SIZE == 8
GraceCycles == 100
NumRegs == 32

Regs == 0 .. (NumRegs - 1)

(***************************************************************************)
(* Instruction words                                                       *)
(***************************************************************************)
Word(op, rd, f3, rs1, rs2, f7) ==
    [opcode |-> op, rd |-> rd, funct3 |-> f3, rs1 |-> rs1, rs2 |-> rs2, funct7 |-> f7]

ZeroWord == Word(0, 0, 0, 0, 0, 0)

OP_LOAD == 3
OP_IMM == 19
OP_AUIPC == 23
OP_STORE == 35
OP_REG == 51
OP_LUI == 55
OP_BRANCH == 99
OP_JALR == 103
OP_JAL == 111
OP_SYSTEM == 115

\* Assembler for the programs that are explored (RISC-V I/S/B/J formats).
ADDI(rd, rs1, imm) == Word(OP_IMM, rd, 0, rs1, (imm % 4096) % 32, (imm % 4096) \div 32)
ADD(rd, rs1, rs2) == Word(OP_REG, rd, 0, rs1, rs2, 0)
LW(rd, rs1, imm) == Word(OP_LOAD, rd, 2, rs1, (imm % 4096) % 32, (imm % 4096) \div 32)
SW(rs2, rs1, imm) == Word(OP_STORE, (imm % 4096) % 32, 2, rs1, rs2, (imm % 4096) \div 32)
BType(f3, rs1, rs2, off) ==
    LET u == off % 8192
    IN  Word(OP_BRANCH, ((u \div 2) % 16) * 2 + ((u \div 2048) % 2), f3, rs1, rs2,
             ((u \div 4096) % 2) * 64 + ((u \div 32) % 64))
BEQ(rs1, rs2, off) == BType(0, rs1, rs2, off)
BNE(rs1, rs2, off) == BType(1, rs1, rs2, off)
JAL(rd, off) ==
    LET u == off % 2097152
    IN  Word(OP_JAL, rd, (u \div 4096) % 8, (u \div 32768) % 32,
             ((u \div 2) % 16) * 2 + ((u \div 2048) % 2),
             ((u \div 1048576) % 2) * 64 + ((u \div 32) % 64))
ECALL == Word(OP_SYSTEM, 0, 0, 0, 0, 0)

\* A word of the custom-0 opcode space (0x0B), which no stage of the 6-stage
\* cores decodes, with a destination field.
CUSTOM0(rd) == Word(11, rd, 0, 0, 0, 0)

\* The opcodes the EX stages of the 6-stage cores act on.
KnownOpcodes ==
    {OP_LOAD, OP_IMM, OP_AUIPC, OP_STORE, OP_REG, OP_LUI, OP_BRANCH, OP_JALR,
     OP_JAL, OP_SYSTEM}

\* Sign extension of an n-bit field value u (0 <= u < 2^n).
SignExt(u, n) == IF u >= 2 ^ (n - 1) THEN u - 2 ^ n ELSE u

(***************************************************************************)
(* Register file (Registers<T>::getValue / setValue: x0 is hardwired 0)    *)
(***************************************************************************)
getValue(regs, i) == IF i = 0 THEN 0 ELSE regs[i]

setValue(regs, i, v) == IF i = 0 THEN regs ELSE [regs EXCEPT ![i] = v]

(***************************************************************************)
(* Data memory as the 6-stage cores see it through MemoryInterface, the    *)
(* bus fabric and Memory::b_transport.  Memory answers BURST_ERROR for     *)
(* len > 4 and leaves the buffer and the array untouched; the bus fabric   *)
(* then overwrites the status with OK, so no error is reported.            *)
(* mem maps the word-aligned addresses the programs use to 32-bit words.   *)
(***************************************************************************)
DataAddrs == {64, 68}

SizeMod(size) == IF size = 1 THEN 256 ELSE 65536

readDataMem(mem, addr, size) ==
    IF addr \notin DataAddrs \/ size > 4 THEN 0
    ELSE IF size = 4 THEN mem[addr]
    ELSE mem[addr] % SizeMod(size)

writeDataMem(mem, addr, data, size) ==
    IF addr \notin DataAddrs \/ size > 4 \/ size = 0 THEN mem
    ELSE IF size = 4 THEN [mem EXCEPT ![addr] = data]
    ELSE [mem EXCEPT ![addr] = (mem[addr] - (mem[addr] % SizeMod(size))) + (data % SizeMod(size))]

\* Instruction fetch: the word stored at pc (4-byte aligned program image,
\* zero elsewhere).  Behind the bus fabric every answer is OK, so a fetch
\* never fails there.
fetch_instruction(im, pc) ==
    IF pc >= 0 /\ pc % 4 = 0 /\ (pc \div 4) \in DOMAIN im THEN im[pc \div 4] ELSE ZeroWord

\* The instruction socket's transaction as the core sees it: an entry
\* ErrorResponse in the image stands for an address at which the target
\* bound to instr_bus answers with an error status (and grants no DMI), so
\* that the cores' fetch_instruction() returns false.
ErrorResponse == [status |-> "TLM_ADDRESS_ERROR_RESPONSE"]

fetch_fails(im, pc) == fetch_instruction(im, pc) = ErrorResponse

NoFetchError == [valid |-> FALSE, pc |-> 0, reported |-> FALSE]

(***************************************************************************)
(* ReorderBuffer<32> (src/inc/ROB.h)                                       *)
(***************************************************************************)
ROBEntry0 ==
    [valid |-> FALSE, ready |-> FALSE, dest_reg |-> 0, result |-> 0,
     is_store |-> FALSE, is_branch |-> FALSE, exception |-> FALSE, pc |-> 0]

ROB0 == [entries |-> [i \in 0 .. (ROB_SIZE - 1) |-> ROBEntry0],
         head |-> 0, tail |-> 0, count |-> 0]

rob_is_full(rob) == rob.count = ROB_SIZE

rob_is_empty(rob) == rob.count = 0

\* allocate(): the index handed out (-1 when full) and the buffer afterwards.
rob_allocate_index(rob) == IF rob_is_full(rob) THEN -1 ELSE rob.tail

rob_allocate(rob) ==
    IF rob_is_full(rob) THEN rob
    ELSE [rob EXCEPT !.entries[rob.tail].valid = TRUE,
                     !.entries[rob.tail].ready = FALSE,
                     !.entries[rob.tail].exception = FALSE,
                     !.tail = (rob.tail + 1) % ROB_SIZE,
                     !.count = rob.count + 1]

rob_complete(rob, index, result, dest_reg) ==
    IF index < 0 \/ index >= ROB_SIZE THEN rob
    ELSE [rob EXCEPT !.entries[index].ready = TRUE,
                     !.entries[index].result = result,
                     !.entries[index].dest_reg = dest_reg]

\* A faulty head_ready() that does not look at the ready flag.
rob_head_ready_anyway(rob) == rob.entries[rob.head].valid

rob_head_ready(rob) == rob.entries[rob.head].valid /\ rob.entries[rob.head].ready

rob_get_head(rob) == rob.entries[rob.head]

\* A faulty retire() that forgets to decrement count.
rob_retire_nocount(rob) ==
    IF rob_is_empty(rob) THEN rob
    ELSE [rob EXCEPT !.entries[rob.head].valid = FALSE,
                     !.head = (rob.head + 1) % ROB_SIZE]

rob_retire(rob) ==
    IF rob_is_empty(rob) THEN rob
    ELSE [rob EXCEPT !.entries[rob.head].valid = FALSE,
                     !.head = (rob.head + 1) % ROB_SIZE,
                     !.count = rob.count - 1]

\* flush(): every entry invalid and not ready, the ring empty.
rob_flush(rob) ==
    [rob EXCEPT !.entries = [i \in 0 .. (ROB_SIZE - 1) |->
                                [rob.entries[i] EXCEPT !.valid = FALSE, !.ready = FALSE]],
                !.head = 0, !.tail = 0, !.count = 0]

(***************************************************************************)
(* StoreBuffer<8> (src/inc/StoreBuffer.h)                                  *)
(***************************************************************************)
SBEntry0 == [valid |-> FALSE, address |-> 0, data |-> 0, size |-> 0, rob_index |-> -1]

SB0 == [i \in 0 .. (SB_SIZE - 1) |-> SBEntry0]

sb_free(sb) == {i \in 0 .. (SB_SIZE - 1) : ~sb[i].valid}

sb_min(S) == CHOOSE i \in S : \A j \in S : i <= j

\* A faulty add_store() that does not record the owning ROB entry.
add_store_noindex(sb, address, data, size, rob_index) ==
    IF sb_free(sb) = {} THEN sb
    ELSE [sb EXCEPT ![sb_min(sb_free(sb))] =
              [valid |-> TRUE, address |-> address, data |-> data,
               size |-> size, rob_index |-> -1]]

add_store(sb, address, data, size, rob_index) ==
    IF sb_free(sb) = {} THEN sb
    ELSE [sb EXCEPT ![sb_min(sb_free(sb))] =
              [valid |-> TRUE, address |-> address, data |-> data,
               size |-> size, rob_index |-> rob_index]]

sb_match(sb, rob_index) ==
    {i \in 0 .. (SB_SIZE - 1) : sb[i].valid /\ sb[i].rob_index = rob_index}

\* A faulty commit_store() that never finds the entry.
commit_store_never(sb, rob_index) == FALSE

\* commit_store(): found flag, the entry read out, and the buffer afterwards.
commit_store_found(sb, rob_index) == sb_match(sb, rob_index) # {}

commit_store_entry(sb, rob_index) == sb[sb_min(sb_match(sb, rob_index))]

\* A faulty commit_store() that reads the entry out but leaves it valid.
commit_store_keep(sb, rob_index) == sb

commit_store(sb, rob_index) ==
    IF sb_match(sb, rob_index) = {} THEN sb
    ELSE [sb EXCEPT ![sb_min(sb_match(sb, rob_index))].valid = FALSE]

(***************************************************************************)
(* Bit operations on the non-negative values the programs produce          *)
(***************************************************************************)
RECURSIVE BitOp(_, _, _)
BitOp(op, a, b) ==
    IF a = 0 /\ b = 0 THEN 0
    ELSE LET x == a % 2
             y == b % 2
             z == IF op = "and" THEN (IF x = 1 /\ y = 1 THEN 1 ELSE 0)
                  ELSE IF op = "or" THEN (IF x = 1 \/ y = 1 THEN 1 ELSE 0)
                  ELSE (IF x # y THEN 1 ELSE 0)
         IN  z + 2 * BitOp(op, a \div 2, b \div 2)

Bool2Int(b) == IF b THEN 1 ELSE 0

(***************************************************************************)
(* CPURV64P6_Cycle: state after construction                               *)
(***************************************************************************)
StackTop64 == 805306360

PCGenFetch0 == [pc |-> 0, valid |-> FALSE]

FetchId0 == [pc |-> 0, instr |-> ZeroWord, valid |-> FALSE]

IdIssue0 ==
    [pc |-> 0, instr |-> ZeroWord, rd |-> 0, rs1 |-> 0, rs2 |-> 0, imm |-> 0,
     opcode |-> 0, funct3 |-> 0, funct7 |-> 0, valid |-> FALSE]

IssueEx0 ==
    [pc |-> 0, rs1_val |-> 0, rs2_val |-> 0, imm |-> 0, rd |-> 0, opcode |-> 0,
     funct3 |-> 0, funct7 |-> 0, rob_index |-> -1, valid |-> FALSE]

CSR0 == [mstatus_mie |-> FALSE, mip_meip |-> FALSE, mepc |-> 0, mcause |-> {}, mtvec |-> 0]

NoIssue ==
    [valid |-> FALSE, pc |-> 0, exp_pc |-> 0, after_redirect |-> FALSE,
     hazard |-> FALSE, stale |-> FALSE, seq |-> 0, waited |-> 0]

NoRetire ==
    [valid |-> FALSE, pc |-> 0, seq |-> 0, exp_seq |-> 0, dest_reg |-> 0,
     regs_same |-> TRUE, mem_same |-> TRUE, bus_write |-> FALSE, rob_index |-> -1]

NoExec ==
    [valid |-> FALSE, pc |-> 0, exp_pc |-> 0, taken |-> FALSE, target |-> 0,
     sb_pending |-> 0]

CPU64_0(PC, mie) ==
    [pcgen_fetch_reg |-> PCGenFetch0, pcgen_fetch_next |-> PCGenFetch0,
     fetch_id_reg |-> FetchId0, fetch_id_next |-> FetchId0,
     id_issue_reg |-> IdIssue0, id_issue_next |-> IdIssue0,
     issue_ex_reg |-> IssueEx0, issue_ex_next |-> IssueEx0,
     next_pc |-> PC,
     stall_pcgen |-> FALSE, stall_fetch |-> FALSE, stall_issue |-> FALSE,
     flush_pipeline |-> FALSE, pc_redirect_target |-> 0, pc_redirect_valid |-> FALSE,
     scoreboard |-> [i \in Regs |-> FALSE],
     regs |-> [i \in Regs |-> IF i = 2 THEN StackTop64 ELSE 0],
     csr |-> [CSR0 EXCEPT !.mstatus_mie = mie],
     rob |-> ROB0, store_buffer |-> SB0,
     mem |-> [a \in DataAddrs |-> 0],
     stats |-> [cycles |-> 0, instructions |-> 0, stalls |-> 0, branches |-> 0],
     interrupt |-> FALSE, int_cause |-> 0,
     stopped |-> FALSE,
     g_inflight |-> <<>>, g_issue_count |-> 0, g_retire_count |-> 0,
     g_seq_pc |-> PC, g_redirected |-> FALSE,
     g_arch_regs |-> [i \in Regs |-> IF i = 2 THEN StackTop64 ELSE 0],
     g_last_issue |-> NoIssue, g_last_retire |-> NoRetire, g_last_ex |-> NoExec,
     g_fetch_error |-> NoFetchError,
     g_bus_writes |-> 0, g_stall_run |-> 0, g_max_wait |-> 0]

(***************************************************************************)
(* Immediate extraction (ID stage), per instruction format                 *)
(***************************************************************************)
ImmI(w) == SignExt(w.funct7 * 32 + w.rs2, 12)

ImmS(w) == SignExt(w.funct7 * 32 + w.rd, 12)

ImmB(w) ==
    SignExt((w.funct7 \div 64) * 4096 + (w.rd % 2) * 2048
            + (w.funct7 % 64) * 32 + (w.rd \div 2) * 2, 13)

ImmU(w) == SignExt(((w.funct7 * 32 + w.rs2) * 32 + w.rs1) * 8 + w.funct3, 20) * 4096

ImmJ(w) ==
    SignExt((w.funct7 \div 64) * 1048576 + (w.rs1 * 8 + w.funct3) * 4096
            + (w.rs2 % 2) * 2048 + ((w.funct7 % 64) * 16 + (w.rs2 \div 2)) * 2, 21)

\* The decoded latch contents for word w at pc; sysImm says whether opcode
\* 0x73 takes the I-type immediate (RV64 core) or the default 0 (RV32 core).
Decode(w, pc, sysImm) ==
    [pc |-> pc, instr |-> w, opcode |-> w.opcode, funct3 |-> w.funct3,
     rs1 |-> w.rs1, rs2 |-> w.rs2, funct7 |-> w.funct7,
     rd |-> IF w.opcode \in {OP_STORE, OP_BRANCH} THEN 0 ELSE w.rd,
     imm |-> IF w.opcode \in {OP_IMM, OP_LOAD, OP_JALR} THEN ImmI(w)
             ELSE IF w.opcode = OP_STORE THEN ImmS(w)
             ELSE IF w.opcode = OP_BRANCH THEN ImmB(w)
             ELSE IF w.opcode \in {OP_LUI, OP_AUIPC} THEN ImmU(w)
             ELSE IF w.opcode = OP_JAL THEN ImmJ(w)
             ELSE IF w.opcode = OP_SYSTEM /\ sysImm THEN ImmI(w)
             ELSE 0,
     valid |-> TRUE]

(***************************************************************************)
(* ALU and branch condition of the EX stages; sh is the shift-amount       *)
(* modulus (64 on RV64, 32 on RV32).  Operands are non-negative here, so   *)
(* signed and unsigned comparison agree and >> is the same for SRA/SRL.    *)
(***************************************************************************)
AluR(x, sh) ==
    IF x.funct3 = 0 THEN (IF x.funct7 = 32 THEN x.rs1_val - x.rs2_val
                          ELSE x.rs1_val + x.rs2_val)
    ELSE IF x.funct3 = 1 THEN x.rs1_val * (2 ^ (x.rs2_val % sh))
    ELSE IF x.funct3 = 2 THEN Bool2Int(x.rs1_val < x.rs2_val)
    ELSE IF x.funct3 = 3 THEN Bool2Int(x.rs1_val < x.rs2_val)
    ELSE IF x.funct3 = 4 THEN BitOp("xor", x.rs1_val, x.rs2_val)
    ELSE IF x.funct3 = 5 THEN x.rs1_val \div (2 ^ (x.rs2_val % sh))
    ELSE IF x.funct3 = 6 THEN BitOp("or", x.rs1_val, x.rs2_val)
    ELSE BitOp("and", x.rs1_val, x.rs2_val)

AluI(x, sh) ==
    IF x.funct3 = 0 THEN x.rs1_val + x.imm
    ELSE IF x.funct3 = 2 THEN Bool2Int(x.rs1_val < x.imm)
    ELSE IF x.funct3 = 3 THEN Bool2Int(x.imm < 0 \/ x.rs1_val < x.imm)
    ELSE IF x.funct3 = 4 THEN BitOp("xor", x.rs1_val, x.imm % 4096)
    ELSE IF x.funct3 = 6 THEN BitOp("or", x.rs1_val, x.imm % 4096)
    ELSE IF x.funct3 = 7 THEN BitOp("and", x.rs1_val, x.imm % 4096)
    ELSE IF x.funct3 = 1 THEN x.rs1_val * (2 ^ (x.imm % sh))
    ELSE x.rs1_val \div (2 ^ (x.imm % sh))

BranchCond(x) ==
    IF x.funct3 = 0 THEN x.rs1_val = x.rs2_val
    ELSE IF x.funct3 = 1 THEN x.rs1_val # x.rs2_val
    ELSE IF x.funct3 = 4 THEN x.rs1_val < x.rs2_val
    ELSE IF x.funct3 = 5 THEN x.rs1_val >= x.rs2_val
    ELSE IF x.funct3 = 6 THEN x.rs1_val < x.rs2_val
    ELSE IF x.funct3 = 7 THEN x.rs1_val >= x.rs2_val
    ELSE FALSE

\* (v & ~1): clear bit 0.
ClearBit0(v) == v - (v % 2)

StoreSize(f3) == IF f3 = 0 THEN 1 ELSE IF f3 = 1 THEN 2 ELSE IF f3 = 2 THEN 4
                 ELSE IF f3 = 3 THEN 8 ELSE 0

(***************************************************************************)
(* CPURV64P6_Cycle: the stages, each a function of the core's state        *)
(***************************************************************************)
\* A faulty commit that writes the register but forgets to release the
\* scoreboard bit.
Commit_stage_keepbusy(s) ==
    IF ~rob_head_ready(s.rob) THEN s
    ELSE
      LET entry == rob_get_head(s.rob)
          hi    == s.rob.head
          found == entry.is_store /\ commit_store_found(s.store_buffer, hi)
          sbe   == commit_store_entry(s.store_buffer, hi)
          oldest == IF s.g_inflight = <<>> THEN [pc |-> -1, rd |-> 0, rob_index |-> -1, seq |-> 0, cycle |-> 0]
                    ELSE Head(s.g_inflight)
      IN  [s EXCEPT
             !.store_buffer = IF entry.is_store THEN commit_store(@, hi) ELSE @,
             !.mem = IF found THEN writeDataMem(@, sbe.address, sbe.data, sbe.size) ELSE @,
             !.regs = IF entry.dest_reg # 0 THEN setValue(@, entry.dest_reg, entry.result) ELSE @,
             !.stats.instructions = @ + 1,
             !.rob = rob_retire(@),
             !.g_bus_writes = IF found THEN @ + 1 ELSE @,
             !.g_retire_count = @ + 1,
             !.g_last_retire = [valid |-> TRUE, pc |-> entry.pc, seq |-> oldest.seq,
                                exp_seq |-> s.g_retire_count + 1,
                                dest_reg |-> entry.dest_reg,
                                regs_same |-> (entry.dest_reg = 0
                                               \/ s.regs[entry.dest_reg] = entry.result),
                                mem_same |-> (~found \/ s.mem = writeDataMem(s.mem, sbe.address, sbe.data, sbe.size)),
                                bus_write |-> found, rob_index |-> hi],
             !.g_inflight = IF @ = <<>> THEN @ ELSE Tail(@)]

Commit_stage(s) ==
    IF ~rob_head_ready(s.rob) THEN s
    ELSE
      LET entry == rob_get_head(s.rob)
          hi    == s.rob.head
          found == entry.is_store /\ commit_store_found(s.store_buffer, hi)
          sbe   == commit_store_entry(s.store_buffer, hi)
          oldest == IF s.g_inflight = <<>> THEN [pc |-> -1, rd |-> 0, rob_index |-> -1, seq |-> 0, cycle |-> 0]
                    ELSE Head(s.g_inflight)
      IN  [s EXCEPT
             !.store_buffer = IF entry.is_store THEN commit_store(@, hi) ELSE @,
             !.mem = IF found THEN writeDataMem(@, sbe.address, sbe.data, sbe.size) ELSE @,
             !.regs = IF entry.dest_reg # 0 THEN setValue(@, entry.dest_reg, entry.result) ELSE @,
             !.scoreboard = IF entry.dest_reg # 0 THEN [@ EXCEPT ![entry.dest_reg] = FALSE] ELSE @,
             !.stats.instructions = @ + 1,
             !.rob = rob_retire(@),
             !.g_bus_writes = IF found THEN @ + 1 ELSE @,
             !.g_retire_count = @ + 1,
             !.g_last_retire = [valid |-> TRUE, pc |-> entry.pc, seq |-> oldest.seq,
                                exp_seq |-> s.g_retire_count + 1,
                                dest_reg |-> entry.dest_reg,
                                regs_same |-> (entry.dest_reg = 0
                                               \/ s.regs[entry.dest_reg] = entry.result),
                                mem_same |-> (~found \/ s.mem = writeDataMem(s.mem, sbe.address, sbe.data, sbe.size)),
                                bus_write |-> found, rob_index |-> hi],
             !.g_inflight = IF @ = <<>> THEN @ ELSE Tail(@)]

LoadResult64(mem, addr, f3) ==
    IF f3 = 0 THEN SignExt(readDataMem(mem, addr, 1), 8)
    ELSE IF f3 = 1 THEN SignExt(readDataMem(mem, addr, 2), 16)
    ELSE IF f3 = 2 THEN readDataMem(mem, addr, 4)
    ELSE IF f3 = 3 THEN readDataMem(mem, addr, 8)
    ELSE IF f3 = 4 THEN readDataMem(mem, addr, 1)
    ELSE IF f3 = 5 THEN readDataMem(mem, addr, 2)
    ELSE IF f3 = 6 THEN readDataMem(mem, addr, 4)
    ELSE 0

EX_stage(s) ==
    IF ~s.issue_ex_reg.valid THEN s
    ELSE
      LET x == s.issue_ex_reg
          taken == IF x.opcode \in {OP_JAL, OP_JALR} THEN TRUE
                   ELSE IF x.opcode = OP_BRANCH THEN BranchCond(x)
                   ELSE FALSE
          target == IF x.opcode = OP_JALR THEN ClearBit0(x.rs1_val + x.imm)
                    ELSE x.pc + x.imm
          addr == x.rs1_val + x.imm
          result == IF x.opcode = OP_REG THEN AluR(x, 64)
                    ELSE IF x.opcode = OP_IMM THEN AluI(x, 64)
                    ELSE IF x.opcode = OP_LUI THEN x.imm
                    ELSE IF x.opcode = OP_AUIPC THEN x.pc + x.imm
                    ELSE IF x.opcode \in {OP_JAL, OP_JALR} THEN x.pc + 4
                    ELSE IF x.opcode = OP_LOAD THEN LoadResult64(s.mem, addr, x.funct3)
                    ELSE 0
          exit == x.opcode = OP_SYSTEM /\ x.funct3 = 0 /\ x.imm = 0
                  /\ getValue(s.regs, 17) = 93
      IN  [s EXCEPT
             !.stats.branches = IF x.opcode = OP_BRANCH THEN @ + 1 ELSE @,
             !.store_buffer = IF x.opcode = OP_STORE
                              THEN add_store(@, addr, x.rs2_val, StoreSize(x.funct3), x.rob_index)
                              ELSE @,
             !.pc_redirect_target = IF taken THEN target ELSE @,
             !.pc_redirect_valid = IF taken THEN TRUE ELSE @,
             !.flush_pipeline = IF taken THEN TRUE ELSE @,
             !.stopped = @ \/ exit,
             !.rob = IF x.rob_index >= 0 THEN rob_complete(@, x.rob_index, result, x.rd) ELSE @,
             !.g_seq_pc = IF taken THEN target ELSE @,
             !.g_redirected = IF taken THEN TRUE ELSE @,
             !.g_arch_regs = setValue(@, x.rd, result),
             !.g_last_ex = [valid |-> TRUE, pc |-> x.pc, exp_pc |-> 0,
                            taken |-> taken, target |-> target,
                            sb_pending |-> SB_SIZE - Cardinality(sb_free(s.store_buffer))]]

Issue_stage(s) ==
    LET r  == [s EXCEPT !.stall_pcgen = FALSE, !.stall_fetch = FALSE, !.stall_issue = FALSE]
        d  == s.id_issue_reg
        bubble(t) == [t EXCEPT !.issue_ex_next.valid = FALSE]
        stall(t) == [t EXCEPT !.stall_issue = TRUE, !.stall_fetch = TRUE,
                              !.stall_pcgen = TRUE, !.issue_ex_next.valid = FALSE,
                              !.stats.stalls = @ + 1,
                              !.g_stall_run = @ + 1]
        rob_idx == rob_allocate_index(s.rob)
    IN  IF s.flush_pipeline THEN bubble(r)
        ELSE IF ~d.valid THEN bubble(r)
        ELSE IF s.scoreboard[d.rs1] \/ s.scoreboard[d.rs2] THEN stall(r)
        ELSE IF rob_idx < 0 THEN stall(r)
        ELSE [r EXCEPT
                !.rob = [rob_allocate(@) EXCEPT
                           !.entries[rob_idx].pc = d.pc,
                           !.entries[rob_idx].is_store = (d.opcode = OP_STORE),
                           !.entries[rob_idx].is_branch =
                               (d.opcode \in {OP_BRANCH, OP_JAL, OP_JALR})],
                !.issue_ex_next =
                    [pc |-> d.pc, rs1_val |-> getValue(s.regs, d.rs1),
                     rs2_val |-> getValue(s.regs, d.rs2), imm |-> d.imm, rd |-> d.rd,
                     opcode |-> d.opcode, funct3 |-> d.funct3, funct7 |-> d.funct7,
                     rob_index |-> rob_idx, valid |-> TRUE],
                !.scoreboard = IF d.rd # 0 THEN [@ EXCEPT ![d.rd] = TRUE] ELSE @,
                !.g_issue_count = @ + 1,
                !.g_inflight = Append(@, [pc |-> d.pc, rd |-> d.rd, rob_index |-> rob_idx,
                                          seq |-> s.g_issue_count + 1,
                                          cycle |-> s.stats.cycles]),
                !.g_last_issue =
                    [valid |-> TRUE, pc |-> d.pc, exp_pc |-> s.g_seq_pc,
                     after_redirect |-> s.g_redirected,
                     hazard |-> \E k \in 1 .. Len(s.g_inflight) :
                                   /\ s.g_inflight[k].rd # 0
                                   /\ s.g_inflight[k].rd \in {d.rs1, d.rs2},
                     stale |-> \/ getValue(s.regs, d.rs1) # getValue(s.g_arch_regs, d.rs1)
                               \/ getValue(s.regs, d.rs2) # getValue(s.g_arch_regs, d.rs2),
                     seq |-> s.g_issue_count + 1,
                     waited |-> s.g_stall_run],
                !.g_seq_pc = d.pc + 4,
                !.g_redirected = FALSE,
                !.g_stall_run = 0,
                !.g_max_wait = IF s.g_stall_run > @ THEN s.g_stall_run ELSE @]

\* A faulty ID stage that ignores flush_pipeline.
ID_stage_noflush(s) ==
    IF s.stall_issue THEN s
    ELSE IF ~s.fetch_id_reg.valid THEN [s EXCEPT !.id_issue_next.valid = FALSE]
    ELSE [s EXCEPT !.id_issue_next = Decode(s.fetch_id_reg.instr, s.fetch_id_reg.pc, TRUE)]

ID_stage(s) ==
    IF s.flush_pipeline THEN [s EXCEPT !.id_issue_next.valid = FALSE]
    ELSE IF s.stall_issue THEN s
    ELSE IF ~s.fetch_id_reg.valid THEN [s EXCEPT !.id_issue_next.valid = FALSE]
    ELSE [s EXCEPT !.id_issue_next = Decode(s.fetch_id_reg.instr, s.fetch_id_reg.pc, TRUE)]

Fetch_stage(s, im) ==
    IF s.stall_fetch THEN s
    ELSE IF ~s.pcgen_fetch_reg.valid THEN [s EXCEPT !.fetch_id_next.valid = FALSE]
    ELSE IF s.flush_pipeline THEN [s EXCEPT !.fetch_id_next.valid = FALSE]
    ELSE IF fetch_fails(im, s.pcgen_fetch_reg.pc)
    THEN [s EXCEPT !.fetch_id_next.valid = FALSE,
                   !.g_fetch_error = [valid |-> TRUE, pc |-> s.pcgen_fetch_reg.pc,
                                      reported |-> FALSE]]
    ELSE [s EXCEPT !.fetch_id_next =
              [pc |-> s.pcgen_fetch_reg.pc,
               instr |-> fetch_instruction(im, s.pcgen_fetch_reg.pc),
               valid |-> TRUE]]

PCGen_stage(s) ==
    IF s.flush_pipeline
    THEN [s EXCEPT !.next_pc = s.pc_redirect_target,
                   !.flush_pipeline = FALSE,
                   !.pc_redirect_valid = FALSE,
                   !.pcgen_fetch_next.valid = FALSE]
    ELSE IF s.stall_pcgen THEN s
    ELSE [s EXCEPT !.pcgen_fetch_next = [pc |-> s.next_pc, valid |-> TRUE],
                   !.next_pc = @ + 4]

\* The clock edge: every _next latch is copied to its _reg latch.
LatchTransfer64(s) ==
    [s EXCEPT !.issue_ex_reg = s.issue_ex_next,
              !.id_issue_reg = s.id_issue_next,
              !.fetch_id_reg = s.fetch_id_next,
              !.pcgen_fetch_reg = s.pcgen_fetch_next,
              !.g_last_issue = NoIssue, !.g_last_retire = NoRetire, !.g_last_ex = NoExec,
              !.g_fetch_error = NoFetchError]

\* End of the loop body: count the cycle; stop when the pipeline has drained.
EndOfCycle64(s) ==
    LET t == [s EXCEPT !.stats.cycles = @ + 1]
    IN  IF /\ t.stats.cycles > GraceCycles
           /\ ~t.pcgen_fetch_reg.valid /\ ~t.pcgen_fetch_next.valid
           /\ ~t.fetch_id_reg.valid /\ ~t.id_issue_reg.valid /\ ~t.issue_ex_reg.valid
           /\ rob_is_empty(t.rob)
        THEN [t EXCEPT !.stopped = TRUE]
        ELSE t

\* A faulty loop body that runs EX before Commit.
cycle_thread64_exfirst(s, im) ==
    LET s0 == LatchTransfer64(s)
        s1 == EX_stage(s0)
        s2 == Commit_stage(s1)
        s3 == Issue_stage(s2)
        s4 == ID_stage(s3)
        s5 == Fetch_stage(s4, im)
        s6 == PCGen_stage(s5)
    IN  EndOfCycle64(s6)

\* One iteration of cycle_thread's loop.  The stages run in reverse order.
cycle_thread64(s, im) ==
    LET s0 == LatchTransfer64(s)
        s1 == Commit_stage(s0)
        s2 == EX_stage(s1)
        s3 == Issue_stage(s2)
        s4 == ID_stage(s3)
        s5 == Fetch_stage(s4, im)
        s6 == PCGen_stage(s5)
    IN  EndOfCycle64(s6)

(***************************************************************************)
(* CPURV32P6_Cycle: IF -> ID -> IS -> EX -> MEM -> WB, in order, no ROB.   *)
(* The state is taken at cycle_thread's wait: the thread has reset the     *)
(* registers, set x2 and counted the first cycle.  DMA::is_in_flight() is  *)
(* false throughout (no DMA transfer is started by the programs).          *)
(***************************************************************************)
StackTop32 == 805306112

IfId0 == [pc |-> 0, instr |-> ZeroWord, valid |-> FALSE]

IsEx0 ==
    [pc |-> 0, rs1_val |-> 0, rs2_val |-> 0, imm |-> 0, rd |-> 0, opcode |-> 0,
     funct3 |-> 0, funct7 |-> 0, valid |-> FALSE]

ExMem0 ==
    [pc |-> 0, alu_result |-> 0, store_data |-> 0, rd |-> 0, funct3 |-> 0,
     mem_read |-> FALSE, mem_write |-> FALSE, branch_taken |-> FALSE,
     branch_target |-> 0, valid |-> FALSE]

MemWb0 == [result |-> 0, rd |-> 0, reg_write |-> FALSE, valid |-> FALSE]

NoExec32 == [valid |-> FALSE, pc |-> 0, exp_pc |-> 0, after_taken |-> FALSE]

NoIssue32 == [valid |-> FALSE, pc |-> 0, hazard |-> FALSE, in_order |-> TRUE, waited |-> 0]

CPU32_0(PC, mie) ==
    [if_id_reg |-> IfId0, if_id_next |-> IfId0,
     id_is_reg |-> IdIssue0, id_is_next |-> IdIssue0,
     is_ex_reg |-> IsEx0, is_ex_next |-> IsEx0,
     ex_mem_reg |-> ExMem0, ex_mem_next |-> ExMem0,
     mem_wb_reg |-> MemWb0, mem_wb_next |-> MemWb0,
     pc_register |-> PC,
     stall_fetch |-> FALSE, flush_pipeline |-> FALSE,
     pc_redirect_target |-> 0, pc_redirect_valid |-> FALSE,
     scoreboard |-> [i \in Regs |-> FALSE],
     regs |-> [i \in Regs |-> IF i = 2 THEN StackTop32 ELSE 0],
     csr |-> [CSR0 EXCEPT !.mstatus_mie = mie],
     mem |-> [a \in DataAddrs |-> 0],
     stats |-> [cycles |-> 1, instructions |-> 0],
     interrupt |-> FALSE, int_cause |-> 0,
     stopped |-> FALSE,
     g_seq_pc |-> PC, g_after_taken |-> FALSE, g_exit |-> FALSE,
     g_issued |-> 0, g_retired |-> 0,
     g_arch_regs |-> [i \in Regs |-> IF i = 2 THEN StackTop32 ELSE 0],
     g_last_ex |-> NoExec32, g_last_issue |-> NoIssue32,
     g_fetch_error |-> NoFetchError,
     g_front |-> <<>>, g_stall_run |-> 0, g_max_wait |-> 0]

\* A faulty write-back that retires without counting.
WB_stage32_nocount(s) ==
    IF ~s.mem_wb_reg.valid THEN s
    ELSE LET w == s.mem_wb_reg
             wr == w.reg_write /\ w.rd # 0
         IN  [s EXCEPT !.regs = IF wr THEN setValue(@, w.rd, w.result) ELSE @,
                       !.scoreboard = IF wr THEN [@ EXCEPT ![w.rd] = FALSE] ELSE @,
                       !.g_retired = @ + 1]

WB_stage32(s) ==
    IF ~s.mem_wb_reg.valid THEN s
    ELSE LET w == s.mem_wb_reg
             wr == w.reg_write /\ w.rd # 0
         IN  [s EXCEPT !.regs = IF wr THEN setValue(@, w.rd, w.result) ELSE @,
                       !.scoreboard = IF wr THEN [@ EXCEPT ![w.rd] = FALSE] ELSE @,
                       !.stats.instructions = @ + 1,
                       !.g_retired = @ + 1]

LoadResult32(mem, addr, f3) ==
    IF f3 = 0 THEN SignExt(readDataMem(mem, addr, 1), 8)
    ELSE IF f3 = 1 THEN SignExt(readDataMem(mem, addr, 2), 16)
    ELSE IF f3 = 2 THEN readDataMem(mem, addr, 4)
    ELSE IF f3 = 4 THEN readDataMem(mem, addr, 1)
    ELSE IF f3 = 5 THEN readDataMem(mem, addr, 2)
    ELSE addr

MEM_stage32(s) ==
    IF ~s.ex_mem_reg.valid THEN [s EXCEPT !.mem_wb_next.valid = FALSE]
    ELSE LET m == s.ex_mem_reg
             result == IF m.mem_read THEN LoadResult32(s.mem, m.alu_result, m.funct3)
                       ELSE m.alu_result
             size == IF m.funct3 \in {0, 1, 2} THEN StoreSize(m.funct3) ELSE 0
         IN  [s EXCEPT
                !.mem = IF ~m.mem_read /\ m.mem_write
                        THEN writeDataMem(@, m.alu_result, m.store_data, size) ELSE @,
                !.mem_wb_next = [result |-> result, rd |-> m.rd,
                                 reg_write |-> (m.rd # 0) /\ ~m.mem_write,
                                 valid |-> TRUE],
                !.g_arch_regs = IF m.mem_write THEN @ ELSE setValue(@, m.rd, result)]

EX_stage32(s) ==
    IF ~s.is_ex_reg.valid THEN [s EXCEPT !.ex_mem_next.valid = FALSE]
    ELSE
      LET x == s.is_ex_reg
          branch_taken == x.opcode = OP_BRANCH /\ BranchCond(x)
          redirect == branch_taken \/ x.opcode \in {OP_JAL, OP_JALR}
          branch_target == IF x.opcode = OP_BRANCH THEN x.pc + x.imm ELSE 0
          target == IF x.opcode = OP_JALR THEN ClearBit0(x.rs1_val + x.imm)
                    ELSE x.pc + x.imm
          result == IF x.opcode = OP_REG THEN AluR(x, 32)
                    ELSE IF x.opcode = OP_IMM THEN AluI(x, 32)
                    ELSE IF x.opcode \in {OP_LOAD, OP_STORE} THEN x.rs1_val + x.imm
                    ELSE IF x.opcode \in {OP_JAL, OP_JALR} THEN x.pc + 4
                    ELSE IF x.opcode = OP_LUI THEN x.imm
                    ELSE IF x.opcode = OP_AUIPC THEN x.pc + x.imm
                    ELSE 0
          exit == x.opcode = OP_SYSTEM /\ x.funct3 = 0 /\ x.imm = 0
                  /\ getValue(s.regs, 17) \in {93, 1}
      IN  [s EXCEPT
             !.pc_redirect_target = IF redirect THEN target ELSE @,
             !.pc_redirect_valid = IF redirect THEN TRUE ELSE @,
             !.flush_pipeline = IF redirect THEN TRUE ELSE @,
             !.stopped = @ \/ exit,
             !.ex_mem_next =
                 [pc |-> x.pc, alu_result |-> result, store_data |-> x.rs2_val,
                  rd |-> x.rd, funct3 |-> x.funct3,
                  mem_read |-> (x.opcode = OP_LOAD), mem_write |-> (x.opcode = OP_STORE),
                  branch_taken |-> branch_taken, branch_target |-> branch_target,
                  valid |-> TRUE],
             !.g_exit = @ \/ exit,
             !.g_last_ex = [valid |-> TRUE, pc |-> x.pc, exp_pc |-> s.g_seq_pc,
                            after_taken |-> s.g_after_taken],
             !.g_seq_pc = IF redirect THEN target ELSE x.pc + 4,
             !.g_after_taken = redirect]

\* A faulty IS stage that marks the destination busy even when it is x0.
IS_stage32_x0(s) ==
    LET d == s.id_is_reg
    IN  IF s.flush_pipeline THEN [s EXCEPT !.is_ex_next.valid = FALSE, !.g_front = <<>>]
        ELSE IF ~d.valid THEN [s EXCEPT !.is_ex_next.valid = FALSE]
        ELSE IF s.scoreboard[d.rs1] \/ s.scoreboard[d.rs2]
        THEN [s EXCEPT !.is_ex_next.valid = FALSE,
                       !.id_is_next = d,
                       !.stall_fetch = TRUE,
                       !.g_stall_run = @ + 1]
        ELSE [s EXCEPT
                !.stall_fetch = FALSE,
                !.g_front = IF @ = <<>> THEN @ ELSE Tail(@),
                !.g_stall_run = 0,
                !.g_max_wait = IF s.g_stall_run > @ THEN s.g_stall_run ELSE @,
                !.is_ex_next =
                    [pc |-> d.pc, rs1_val |-> getValue(s.regs, d.rs1),
                     rs2_val |-> getValue(s.regs, d.rs2), imm |-> d.imm, rd |-> d.rd,
                     opcode |-> d.opcode, funct3 |-> d.funct3, funct7 |-> d.funct7,
                     valid |-> TRUE],
                !.scoreboard = [@ EXCEPT ![d.rd] = TRUE],
                !.g_issued = @ + 1,
                !.g_last_issue =
                    [valid |-> TRUE, pc |-> d.pc,
                     in_order |-> (s.g_front # <<>> /\ Head(s.g_front) = d.pc),
                     waited |-> s.g_stall_run,
                     hazard |-> \/ /\ s.ex_mem_next.valid /\ s.ex_mem_next.rd # 0
                                   /\ ~s.ex_mem_next.mem_write
                                   /\ s.ex_mem_next.rd \in {d.rs1, d.rs2}
                                \/ /\ s.mem_wb_next.valid /\ s.mem_wb_next.reg_write
                                   /\ s.mem_wb_next.rd \in {d.rs1, d.rs2}]]

IS_stage32(s) ==
    LET d == s.id_is_reg
    IN  IF s.flush_pipeline THEN [s EXCEPT !.is_ex_next.valid = FALSE, !.g_front = <<>>]
        ELSE IF ~d.valid THEN [s EXCEPT !.is_ex_next.valid = FALSE]
        ELSE IF s.scoreboard[d.rs1] \/ s.scoreboard[d.rs2]
        THEN [s EXCEPT !.is_ex_next.valid = FALSE,
                       !.id_is_next = d,
                       !.stall_fetch = TRUE,
                       !.g_stall_run = @ + 1]
        ELSE [s EXCEPT
                !.stall_fetch = FALSE,
                !.g_front = IF @ = <<>> THEN @ ELSE Tail(@),
                !.g_stall_run = 0,
                !.g_max_wait = IF s.g_stall_run > @ THEN s.g_stall_run ELSE @,
                !.is_ex_next =
                    [pc |-> d.pc, rs1_val |-> getValue(s.regs, d.rs1),
                     rs2_val |-> getValue(s.regs, d.rs2), imm |-> d.imm, rd |-> d.rd,
                     opcode |-> d.opcode, funct3 |-> d.funct3, funct7 |-> d.funct7,
                     valid |-> TRUE],
                !.scoreboard = IF d.rd # 0 THEN [@ EXCEPT ![d.rd] = TRUE] ELSE @,
                !.g_issued = @ + 1,
                !.g_last_issue =
                    [valid |-> TRUE, pc |-> d.pc,
                     in_order |-> (s.g_front # <<>> /\ Head(s.g_front) = d.pc),
                     waited |-> s.g_stall_run,
                     hazard |-> \/ /\ s.ex_mem_next.valid /\ s.ex_mem_next.rd # 0
                                   /\ ~s.ex_mem_next.mem_write
                                   /\ s.ex_mem_next.rd \in {d.rs1, d.rs2}
                                \/ /\ s.mem_wb_next.valid /\ s.mem_wb_next.reg_write
                                   /\ s.mem_wb_next.rd \in {d.rs1, d.rs2}]]

ID_stage32(s) ==
    IF s.flush_pipeline THEN [s EXCEPT !.id_is_next.valid = FALSE]
    ELSE IF s.stall_fetch THEN s
    ELSE IF ~s.if_id_reg.valid THEN [s EXCEPT !.id_is_next.valid = FALSE]
    ELSE [s EXCEPT !.id_is_next = Decode(s.if_id_reg.instr, s.if_id_reg.pc, FALSE)]

pc_select(s) ==
    IF s.pc_redirect_valid
    THEN [s EXCEPT !.pc_register = s.pc_redirect_target,
                   !.pc_redirect_valid = FALSE,
                   !.flush_pipeline = FALSE]
    ELSE IF s.stall_fetch THEN s
    ELSE [s EXCEPT !.pc_register = @ + 4]

IF_stage32(s, im) ==
    LET current_pc == s.pc_register
        t == pc_select(s)
    IN  IF t.flush_pipeline THEN [t EXCEPT !.if_id_next.valid = FALSE]
        ELSE IF fetch_fails(im, current_pc)
        THEN [t EXCEPT !.if_id_next.valid = FALSE, !.stopped = TRUE,
                       !.g_fetch_error = [valid |-> TRUE, pc |-> current_pc,
                                          reported |-> TRUE]]
        ELSE [t EXCEPT !.if_id_next =
                  [pc |-> current_pc, instr |-> fetch_instruction(im, current_pc),
                   valid |-> TRUE]]

\* A faulty clock edge that loads the IF->ID latch during a stall as well.
LatchTransfer32_nohold(s) ==
    [s EXCEPT !.mem_wb_reg = s.mem_wb_next,
              !.ex_mem_reg = s.ex_mem_next,
              !.is_ex_reg = s.is_ex_next,
              !.id_is_reg = s.id_is_next,
              !.if_id_reg = s.if_id_next,
              !.g_last_ex = NoExec32, !.g_last_issue = NoIssue32,
              !.g_fetch_error = NoFetchError,
              !.g_front = IF s.if_id_next.valid THEN Append(@, s.if_id_next.pc) ELSE @]

\* The clock edge.  g_front lists, oldest first, the fetched instructions
\* that have entered the IF->ID latch and have been neither issued nor
\* flushed.
LatchTransfer32(s) ==
    [s EXCEPT !.mem_wb_reg = s.mem_wb_next,
              !.ex_mem_reg = s.ex_mem_next,
              !.is_ex_reg = s.is_ex_next,
              !.id_is_reg = s.id_is_next,
              !.if_id_reg = IF ~s.stall_fetch THEN s.if_id_next ELSE @,
              !.g_last_ex = NoExec32, !.g_last_issue = NoIssue32,
              !.g_fetch_error = NoFetchError,
              !.g_front = IF ~s.stall_fetch /\ s.if_id_next.valid
                          THEN Append(@, s.if_id_next.pc) ELSE @]

\* One iteration of cycle_thread's loop, from one wait to the next.
cycle_thread32(s, im) ==
    LET s0 == LatchTransfer32(s)
        s1 == WB_stage32(s0)
        s2 == MEM_stage32(s1)
        s3 == EX_stage32(s2)
        s4 == IS_stage32(s3)
        s5 == ID_stage32(s4)
        s6 == IF_stage32(s5, im)
    IN  [s6 EXCEPT !.stats.cycles = @ + 1]

(***************************************************************************)
(* The executor the 2-stage cores call (BASE_ISA::exec_instruction and the *)
(* C/M/A handlers), on a core state s with fields regs, PC, csr, mem,      *)
(* if_ex_latch and stopped.  It applies the instruction in the latch:      *)
(* ALU result to rd, effective address rs1 + imm for loads and stores,     *)
(* branch target pc + imm written to PC when the branch is taken, pc + 4   *)
(* to rd for JAL/JALR, ECALL stops on a7 in {1, 93}, unknown words are     *)
(* NOPs.  It leaves PC alone for straight-line instructions.               *)
(***************************************************************************)
ExecOperands(s) ==
    LET d == Decode(s.if_ex_latch.instruction, s.if_ex_latch.pc, TRUE)
    IN  [pc |-> d.pc, rs1_val |-> getValue(s.regs, d.rs1),
         rs2_val |-> getValue(s.regs, d.rs2), imm |-> d.imm, rd |-> d.rd,
         opcode |-> d.opcode, funct3 |-> d.funct3, funct7 |-> d.funct7]

\* pc_changed: the instruction redirected PC (a taken branch or a jump).
exec_pc_changed(s) ==
    LET x == ExecOperands(s)
    IN  \/ x.opcode \in {OP_JAL, OP_JALR}
        \/ x.opcode = OP_BRANCH /\ BranchCond(x)

exec_target(s) ==
    LET x == ExecOperands(s)
    IN  IF x.opcode = OP_JALR THEN ClearBit0(x.rs1_val + x.imm) ELSE x.pc + x.imm

exec_instruction(s, sh) ==
    LET x == ExecOperands(s)
        addr == x.rs1_val + x.imm
        writes == x.opcode \in {OP_REG, OP_IMM, OP_LUI, OP_AUIPC, OP_JAL, OP_JALR, OP_LOAD}
        result == IF x.opcode = OP_REG THEN AluR(x, sh)
                  ELSE IF x.opcode = OP_IMM THEN AluI(x, sh)
                  ELSE IF x.opcode = OP_LUI THEN x.imm
                  ELSE IF x.opcode = OP_AUIPC THEN x.pc + x.imm
                  ELSE IF x.opcode \in {OP_JAL, OP_JALR} THEN x.pc + 4
                  ELSE IF x.opcode = OP_LOAD THEN LoadResult64(s.mem, addr, x.funct3)
                  ELSE 0
        exit == x.opcode = OP_SYSTEM /\ x.funct3 = 0 /\ x.imm = 0
                /\ getValue(s.regs, 17) \in {1, 93}
    IN  [s EXCEPT
           !.regs = IF writes THEN setValue(@, x.rd, result) ELSE @,
           !.mem = IF x.opcode = OP_STORE
                   THEN writeDataMem(@, addr, x.rs2_val, StoreSize(x.funct3)) ELSE @,
           !.PC = IF exec_pc_changed(s) THEN exec_target(s) ELSE @,
           !.stopped = @ \/ exit]

\* Length of the instruction word as IF sees it: (instr & 3) != 3 is a
\* compressed (16-bit) instruction.
InstrLen(w) == IF w.opcode % 4 # 3 THEN 2 ELSE 4

\* mcause values, as the set of bit positions that are 1.
MCAUSE_IRQ == {31}

MCAUSE_IRQ_11 == {31, 3, 1, 0}

(***************************************************************************)
(* CPURV64P2: IF and EX joined by one latch.  CPU::CPU_thread calls        *)
(* CPU_step and then cpu_process_IRQ, forever; CPU_step ends in a wait,    *)
(* during which the IRQ line callback can run (phase "wait").              *)
(***************************************************************************)
IfEx0 == [instruction |-> ZeroWord, pc |-> 0, valid |-> FALSE]

\* sp after construction: Memory::SIZE / 8 - 1 (CPURV64P2) and
\* Memory::SIZE / 4 - 1 (CPURV32P2_AT, CPURV64P2_Cycle), with Memory::SIZE
\* the 0x20000000 that StackTop64 and StackTop32 are built from.
StackTopP2 == 67108863

StackTopAT == 134217727

StackTopCycle == 134217727

NoExec2 ==
    [valid |-> FALSE, pc |-> 0, exp_pc |-> 0, prev_taken |-> FALSE, bubbles |-> 0,
     trap_between |-> FALSE, taken |-> FALSE, d_flushes |-> 0, d_hazards |-> 0,
     reg_pc |-> 0]

NoTrap == [valid |-> FALSE, mepc |-> 0, oldest_pc |-> 0]

\* The pipeline state the poll works on, for comparing before and after
\* (CPURV64P2 has the one latch; latch_next is then the empty latch).
PollView(s) ==
    [interrupt |-> s.interrupt, mie |-> s.csr.mstatus_mie, meip |-> s.csr.mip_meip,
     mepc |-> s.csr.mepc, mcause |-> s.csr.mcause, mtvec |-> s.csr.mtvec,
     PC |-> s.PC, latch |-> s.if_ex_latch,
     latch_next |-> IF "if_ex_latch_next" \in DOMAIN s THEN s.if_ex_latch_next ELSE IfEx0]

PollView0 ==
    [interrupt |-> FALSE, mie |-> FALSE, meip |-> FALSE, mepc |-> 0, mcause |-> {},
     mtvec |-> 0, PC |-> 0, latch |-> IfEx0, latch_next |-> IfEx0]

CPU2_0(PC, mie, mtvec) ==
    [regs |-> [i \in Regs |-> IF i = 2 THEN StackTopP2 ELSE 0], PC |-> PC,
     csr |-> [CSR0 EXCEPT !.mstatus_mie = mie, !.mtvec = mtvec],
     mem |-> [a \in DataAddrs |-> 0],
     if_ex_latch |-> IfEx0, pipeline_flush |-> FALSE,
     stats |-> [cycles |-> 0, stalls |-> 0, flushes |-> 0, control_hazards |-> 0],
     perf_instructions |-> 0,
     interrupt |-> FALSE, irq_already_down |-> FALSE, int_cause |-> 0,
     stopped |-> FALSE, phase |-> "step",
     g_steps |-> 0, g_polls |-> 0, g_seq_pc |-> PC, g_prev_taken |-> FALSE,
     g_bubbles |-> 0, g_trap_since |-> FALSE,
     g_last_ex |-> NoExec2, g_trap |-> NoTrap,
     g_pre |-> PollView0, g_post |-> PollView0]

\* A faulty IF stage that fetches although a flush was requested.
IF_stage_P2_noflush(s, im) ==
    LET current_pc == s.PC
        w == fetch_instruction(im, current_pc)
    IN  [s EXCEPT !.if_ex_latch = [instruction |-> w, pc |-> current_pc, valid |-> TRUE],
                  !.PC = @ + InstrLen(w),
                  !.pipeline_flush = FALSE]

IF_stage_P2(s, im) ==
    IF s.pipeline_flush
    THEN [s EXCEPT !.if_ex_latch = IfEx0, !.pipeline_flush = FALSE]
    ELSE LET current_pc == s.PC
             w == fetch_instruction(im, current_pc)
         IN  [s EXCEPT !.if_ex_latch = [instruction |-> w, pc |-> current_pc, valid |-> TRUE],
                       !.PC = @ + InstrLen(w)]

EX_stage_P2(s) ==
    IF ~s.if_ex_latch.valid
    THEN [s EXCEPT !.stats.stalls = @ + 1, !.g_bubbles = @ + 1]
    ELSE
      LET w == s.if_ex_latch.instruction
          is_branch == w.opcode \in {OP_BRANCH, OP_JAL, OP_JALR}
          pc_changed == exec_pc_changed(s)
          flush == is_branch /\ pc_changed
          t == exec_instruction(s, 64)
      IN  [t EXCEPT
             !.pipeline_flush = IF flush THEN TRUE ELSE @,
             !.stats.flushes = IF flush THEN @ + 1 ELSE @,
             !.stats.control_hazards = IF flush THEN @ + 1 ELSE @,
             !.perf_instructions = @ + 1,
             !.g_last_ex =
                 [valid |-> TRUE, pc |-> s.if_ex_latch.pc, exp_pc |-> s.g_seq_pc,
                  prev_taken |-> s.g_prev_taken, bubbles |-> s.g_bubbles,
                  trap_between |-> s.g_trap_since, taken |-> pc_changed,
                  d_flushes |-> (IF flush THEN 1 ELSE 0),
                  d_hazards |-> (IF flush THEN 1 ELSE 0),
                  reg_pc |-> s.PC],
             !.g_seq_pc = IF pc_changed THEN exec_target(s)
                          ELSE s.if_ex_latch.pc + InstrLen(w),
             !.g_prev_taken = pc_changed,
             !.g_bubbles = 0,
             !.g_trap_since = FALSE]

\* CPU_step up to its wait: EX first (reads the latch), then IF (writes it).
\* t is the state CPU_step leaves when it starts in s; the intermediate
\* states are bound one after the other.
CPU_step_P2(s, t, im) ==
    \E s0 \in {[s EXCEPT !.stats.cycles = @ + 1, !.g_last_ex = NoExec2,
                         !.g_trap = NoTrap, !.g_steps = @ + 1]} :
    \E s1 \in {EX_stage_P2(s0)} :
    \E s2 \in {IF_stage_P2(s1, im)} :
    \E s3 \in {IF s2.pipeline_flush THEN [s2 EXCEPT !.stats.cycles = @ + 1] ELSE s2} :
       t = [s3 EXCEPT
              !.g_last_ex.d_flushes = s3.stats.flushes - s.stats.flushes,
              !.g_last_ex.d_hazards = s3.stats.control_hazards - s.stats.control_hazards,
              !.phase = "wait"]

\* A faulty poll that enters the trap although mstatus.MIE is clear.
cpu_process_IRQ_P2_nomie(s) ==
    IF s.interrupt /\ ~s.csr.mip_meip
    THEN [s EXCEPT !.csr.mip_meip = TRUE, !.csr.mepc = s.PC,
                   !.csr.mcause = MCAUSE_IRQ, !.PC = s.csr.mtvec,
                   !.pipeline_flush = TRUE, !.if_ex_latch.valid = FALSE,
                   !.stats.flushes = @ + 1, !.stats.cycles = @ + 2,
                   !.interrupt = FALSE, !.irq_already_down = FALSE]
    ELSE s

cpu_process_IRQ_P2(s) ==
    IF s.interrupt
    THEN IF ~s.csr.mstatus_mie THEN s
         ELSE IF ~s.csr.mip_meip
         THEN [s EXCEPT !.csr.mip_meip = TRUE, !.csr.mepc = s.PC,
                        !.csr.mcause = MCAUSE_IRQ, !.PC = s.csr.mtvec,
                        !.pipeline_flush = TRUE, !.if_ex_latch.valid = FALSE,
                        !.stats.flushes = @ + 1, !.stats.cycles = @ + 2,
                        !.interrupt = FALSE, !.irq_already_down = FALSE]
         ELSE s
    ELSE IF ~s.irq_already_down
         THEN [s EXCEPT !.csr.mip_meip = FALSE, !.irq_already_down = TRUE]
         ELSE s

\* The poll as CPU_thread runs it after CPU_step, with its history record:
\* whether the trap was entered, and the PC of the oldest instruction that
\* had been fetched but not executed (the latch's, or PC if the latch is empty).
Poll_P2(s) ==
    LET t == cpu_process_IRQ_P2(s)
        entered == s.interrupt /\ ~t.interrupt
    IN  [t EXCEPT
           !.phase = "step",
           !.g_polls = @ + 1,
           !.g_trap = [valid |-> entered, mepc |-> t.csr.mepc,
                       oldest_pc |-> IF s.if_ex_latch.valid THEN s.if_ex_latch.pc ELSE s.PC],
           !.g_seq_pc = IF entered THEN s.csr.mtvec ELSE @,
           !.g_trap_since = @ \/ entered,
           !.g_pre = PollView(s),
           !.g_post = PollView(t)]

(***************************************************************************)
(* CPURV32P2_AT: pipeline_thread runs, per clock edge, the latch transfer, *)
(* EX, IF and the IRQ poll.  The instruction fetch (DMI or the AT          *)
(* request/response exchange) delivers the word at PC within the cycle.    *)
(***************************************************************************)
CPU_AT_0(PC, mie, mtvec) ==
    [regs |-> [i \in Regs |-> IF i = 2 THEN StackTopAT ELSE 0], PC |-> PC,
     csr |-> [CSR0 EXCEPT !.mstatus_mie = mie, !.mtvec = mtvec],
     mem |-> [a \in DataAddrs |-> 0],
     if_ex_latch |-> IfEx0, if_ex_latch_next |-> IfEx0, pipeline_flush |-> FALSE,
     stats |-> [cycles |-> 0, stalls |-> 0, flushes |-> 0, control_hazards |-> 0],
     interrupt |-> FALSE, irq_already_down |-> FALSE, int_cause |-> 0,
     stopped |-> FALSE,
     g_steps |-> 0, g_polls |-> 0, g_trap |-> NoTrap,
     g_pre |-> PollView0, g_post |-> PollView0]

IF_stage_AT(s, im) ==
    IF s.pipeline_flush
    THEN [s EXCEPT !.if_ex_latch_next = IfEx0, !.pipeline_flush = FALSE,
                   !.stats.flushes = @ + 1]
    ELSE LET current_pc == s.PC
             w == fetch_instruction(im, current_pc)
         IN  [s EXCEPT !.if_ex_latch_next =
                           [instruction |-> w, pc |-> current_pc, valid |-> TRUE],
                       !.PC = @ + InstrLen(w)]

EX_stage_AT(s) ==
    IF ~s.if_ex_latch.valid
    THEN [s EXCEPT !.stats.stalls = @ + 1]
    ELSE
      LET w == s.if_ex_latch.instruction
          is_branch == w.opcode \in {OP_BRANCH, OP_JAL, OP_JALR}
          flush == is_branch /\ exec_pc_changed(s)
          t == exec_instruction(s, 32)
      IN  [t EXCEPT !.pipeline_flush = IF flush THEN TRUE ELSE @,
                    !.stats.control_hazards = IF flush THEN @ + 1 ELSE @]

cpu_process_IRQ_AT(s) ==
    IF s.interrupt
    THEN IF ~s.csr.mstatus_mie THEN s
         ELSE IF ~s.csr.mip_meip
         THEN [s EXCEPT !.csr.mip_meip = TRUE, !.csr.mepc = s.PC,
                        !.csr.mcause = MCAUSE_IRQ, !.PC = s.csr.mtvec,
                        !.pipeline_flush = TRUE, !.if_ex_latch.valid = FALSE,
                        !.if_ex_latch_next.valid = FALSE,
                        !.stats.flushes = @ + 1, !.stats.cycles = @ + 2,
                        !.interrupt = FALSE, !.irq_already_down = FALSE]
         ELSE s
    ELSE IF ~s.irq_already_down
         THEN [s EXCEPT !.csr.mip_meip = FALSE, !.irq_already_down = TRUE]
         ELSE s

\* One iteration of pipeline_thread's loop, from one wait to the next:
\* t is the state it leaves when it starts in s.
pipeline_thread_AT(s, t, im) ==
    \E s0 \in {[s EXCEPT !.stats.cycles = @ + 1, !.g_steps = @ + 1,
                         !.if_ex_latch = s.if_ex_latch_next]} :
    \E s1 \in {EX_stage_AT(s0)} :
    \E s2 \in {IF_stage_AT(s1, im)} :
    \E s3 \in {cpu_process_IRQ_AT(s2)} :
       t = [s3 EXCEPT
              !.g_polls = @ + 1,
              !.g_trap = [valid |-> s2.interrupt /\ ~s3.interrupt, mepc |-> s3.csr.mepc,
                          oldest_pc |-> IF s2.if_ex_latch_next.valid
                                        THEN s2.if_ex_latch_next.pc ELSE s2.PC],
              !.g_pre = PollView(s2),
              !.g_post = PollView(s3)]

(***************************************************************************)
(* CPURV64P2_Cycle: cycle_thread alternates on_posedge (IRQ poll, latch    *)
(* transfer, EX) and on_negedge (IF through the fetch state machine).      *)
(* dmi_allowed is the memory's answer to a DMI request.                    *)
(***************************************************************************)
fetch_latency == 1

mul_latency == 3

div_latency == 64

branch_penalty == 1

NoTrapC == [valid |-> FALSE, mepc |-> 0]

CPU_Cycle_0(PC, mie, mtvec, dmi) ==
    [regs |-> [i \in Regs |-> IF i = 2 THEN StackTopCycle ELSE 0], PC |-> PC,
     csr |-> [CSR0 EXCEPT !.mstatus_mie = mie, !.mtvec = mtvec],
     mem |-> [a \in DataAddrs |-> 0],
     if_ex_latch |-> IfEx0, if_ex_latch_next |-> IfEx0, pipeline_flush |-> FALSE,
     if_stall |-> FALSE, ex_stall |-> FALSE,
     mem_state |-> "IDLE", mem_latency_remaining |-> 0,
     dmi_ptr_valid |-> FALSE, dmi_allowed |-> dmi,
     stats |-> [total_cycles |-> 0, instruction_cycles |-> 0, stall_cycles |-> 0,
                fetch_cycles |-> 0, branch_penalty |-> 0, instructions_retired |-> 0],
     interrupt |-> FALSE, irq_already_down |-> FALSE, int_cause |-> 0,
     stopped |-> FALSE, phase |-> "posedge",
     g_steps |-> 0, g_polls |-> 0, g_trap |-> NoTrapC,
     g_pre |-> PollView0, g_post |-> PollView0]

\* fetch_instruction(pc, instruction): the state afterwards, the success
\* flag and the word handed back.  On the bus path the word of a completed
\* fetch is the caller's zero-initialised local.
fetch_state_Cycle(s) ==
    IF s.dmi_ptr_valid THEN [s EXCEPT !.mem_state = "IDLE"]
    ELSE IF s.mem_state = "IDLE"
    THEN [s EXCEPT !.mem_state = "FETCH_PENDING",
                   !.mem_latency_remaining = fetch_latency,
                   !.dmi_ptr_valid = s.dmi_allowed]
    ELSE IF s.mem_state = "FETCH_COMPLETE" THEN [s EXCEPT !.mem_state = "IDLE"]
    ELSE s

fetch_ok_Cycle(s) ==
    IF s.dmi_ptr_valid THEN TRUE
    ELSE IF s.mem_state = "IDLE" THEN FALSE
    ELSE s.mem_state = "FETCH_COMPLETE"

fetch_word_Cycle(s, im, pc) ==
    IF s.dmi_ptr_valid THEN fetch_instruction(im, pc) ELSE ZeroWord

get_instruction_latency(w) ==
    IF w.opcode = OP_REG /\ w.funct7 = 1
    THEN (IF w.funct3 < 4 THEN mul_latency ELSE div_latency)
    ELSE 1

IF_stage_Cycle(s, im) ==
    IF s.mem_state = "FETCH_PENDING" /\ s.mem_latency_remaining > 0
    THEN [s EXCEPT !.mem_latency_remaining = @ - 1,
                   !.stats.fetch_cycles = @ + 1,
                   !.if_stall = TRUE]
    ELSE
      LET s0 == IF s.mem_state = "FETCH_PENDING"
                THEN [s EXCEPT !.mem_state = "FETCH_COMPLETE", !.if_stall = FALSE]
                ELSE s
          current_pc == s0.PC
          ok == fetch_ok_Cycle(s0)
          w == fetch_word_Cycle(s0, im, current_pc)
          s1 == fetch_state_Cycle(s0)
      IN  IF ok
          THEN [s1 EXCEPT !.if_ex_latch_next =
                              [instruction |-> w, pc |-> current_pc, valid |-> TRUE],
                          !.PC = @ + InstrLen(w),
                          !.stats.fetch_cycles = @ + 1]
          ELSE [s1 EXCEPT !.if_ex_latch_next.valid = FALSE, !.if_stall = TRUE]

EX_stage_Cycle(s) ==
    IF ~s.if_ex_latch.valid
    THEN [s EXCEPT !.stats.stall_cycles = @ + 1]
    ELSE
      LET w == s.if_ex_latch.instruction
          lat == get_instruction_latency(w)
          is_branch == w.opcode \in {OP_BRANCH, OP_JAL, OP_JALR}
          flush == is_branch /\ exec_pc_changed(s)
          t == exec_instruction(s, 64)
      IN  [t EXCEPT
             !.stats.instruction_cycles = @ + lat,
             !.stats.stall_cycles = @ + (lat - 1),
             !.stats.total_cycles = @ + (lat - 1) + (IF flush THEN branch_penalty ELSE 0),
             !.stats.branch_penalty = IF flush THEN @ + branch_penalty ELSE @,
             !.stats.instructions_retired = @ + 1,
             !.pipeline_flush = IF flush THEN TRUE ELSE @]

cpu_process_IRQ_Cycle(s) ==
    IF s.interrupt
    THEN IF ~s.csr.mstatus_mie THEN s
         ELSE IF ~s.csr.mip_meip
         THEN [s EXCEPT !.csr.mip_meip = TRUE, !.csr.mepc = s.PC,
                        !.csr.mcause = MCAUSE_IRQ_11, !.PC = s.csr.mtvec,
                        !.pipeline_flush = TRUE, !.if_ex_latch.valid = FALSE,
                        !.if_ex_latch_next.valid = FALSE,
                        !.stats.stall_cycles = @ + 2, !.stats.total_cycles = @ + 2,
                        !.interrupt = FALSE, !.irq_already_down = FALSE]
         ELSE s
    ELSE IF ~s.irq_already_down
         THEN [s EXCEPT !.csr.mip_meip = FALSE, !.irq_already_down = TRUE]
         ELSE s

\* t is the state on_posedge leaves when it starts in s.
on_posedge(s, t) ==
    \E s0 \in {[s EXCEPT !.stats.total_cycles = @ + 1, !.g_steps = @ + 1]} :
    \E s1 \in {cpu_process_IRQ_Cycle(s0)} :
    \E s2 \in {[s1 EXCEPT
                  !.g_polls = @ + 1,
                  !.g_trap = [valid |-> s0.interrupt /\ ~s1.interrupt,
                              mepc |-> s1.csr.mepc],
                  !.g_pre = PollView(s0),
                  !.g_post = PollView(s1),
                  !.phase = "negedge"]} :
       IF s2.pipeline_flush
       THEN t = [s2 EXCEPT !.if_ex_latch = IfEx0, !.pipeline_flush = FALSE,
                           !.stats.branch_penalty = @ + 1]
       ELSE IF s2.ex_stall THEN t = [s2 EXCEPT !.stats.stall_cycles = @ + 1]
       ELSE \E s3 \in {[s2 EXCEPT !.if_ex_latch = s2.if_ex_latch_next]} :
               t = EX_stage_Cycle(s3)

\* t is the state on_negedge leaves when it starts in s.
on_negedge(s, t, im) ==
    \E s0 \in {[s EXCEPT !.phase = "posedge"]} :
       IF s0.mem_state = "FETCH_PENDING" THEN t = IF_stage_Cycle(s0, im)
       ELSE IF s0.if_stall \/ s0.pipeline_flush
       THEN t = (IF s0.if_stall THEN [s0 EXCEPT !.stats.stall_cycles = @ + 1] ELSE s0)
       ELSE t = IF_stage_Cycle(s0, im)

(***************************************************************************)
(* The platform around the core (src/src/VPTop.cpp): the bus fabric, the   *)
(* main memory and the DMA engine.                                         *)
(*                                                                         *)
(* A byte address A is the record [w, b] of its word index A div 4 (what   *)
(* BusCtrl::b_transport calls adr) and its byte lane A mod 4; the address  *)
(* constants below are word indices, the value of the source's macro       *)
(* divided by 4.  Data are tuples of bytes, the byte at the lowest address *)
(* first, so a uint32_t is a 4-tuple and a uint64_t an 8-tuple.            *)
(* Transactions carry no byte enables (every initiator sets nullptr).      *)
(***************************************************************************)
Memory_SIZE == 536870912

TRACE_MEMORY_ADDRESS == 268435456

TIMER_MEMORY_ADDRESS_LO == 268439552

TIMER_MEMORY_ADDRESS_HI == 268439553

TIMERCMP_MEMORY_ADDRESS_LO == 268439554

TIMERCMP_MEMORY_ADDRESS_HI == 268439555

UART0_BASE_ADDRESS == 67108864

CLINT_BASE_ADDRESS == 8388608

PLIC_BASE_ADDRESS == 50331648

DMA_BASE_ADDRESS == 201326592

SYSCALL_BASE_ADDRESS == 536870912

TO_HOST_ADDRESS == 603979776

\* 0x80001000 / 4, the literal 0x20000400 of BusCtrl::b_transport
TOHOST_WORD == 536871936

Adr(w, b) == [w |-> w, b |-> b]

Zero4 == <<0, 0, 0, 0>>

Zero8 == <<0, 0, 0, 0, 0, 0, 0, 0>>

\* The number a uint32_t holds, and the address it names.
U32(v) == v[1] + 256 * v[2] + 65536 * v[3] + 16777216 * v[4]

AdrOf(v) == [w |-> (v[1] \div 4) + 64 * v[2] + 16384 * v[3] + 4194304 * v[4],
             b |-> v[1] % 4]

\* v & ~1u
StartCleared(v) == [v EXCEPT ![1] = @ - (@ % 2)]

\* memcpy(&val, ptr, 4) != 0
NonZero4(data) == \E i \in 1 .. 4 : data[i] # 0

\* A freshly set up tlm_generic_payload.
Trans0(cmd, a, data, len, wid) ==
    [command |-> cmd, address |-> a, data |-> data, data_length |-> len,
     streaming_width |-> wid, response_status |-> "INCOMPLETE",
     dmi_allowed |-> FALSE]

\* tlm_generic_payload::is_response_error(): every status but OK.
is_response_error(tr) == tr.response_status # "OK"

(***************************************************************************)
(* Memory (src/src/Memory.cpp).  M = [mem, dmi_allowed, disable_dmi]; mem  *)
(* holds the cells of the byte array that the explored accesses touch.     *)
(***************************************************************************)
MemWin == 16

\* the first bytes, the word after the UART range, the last two bytes
MemCells ==
    (0 .. (MemWin - 1)) \cup (268435712 .. 268435715)
        \cup {Memory_SIZE - 2, Memory_SIZE - 1}

\* What readHexFile leaves in the array: the image, distinct non-zero bytes.
Image == [c \in MemCells |-> IF c < MemWin THEN c + 17 ELSE 0]

Memory0(dmi_ok, no_dmi) ==
    [mem |-> Image, dmi_allowed |-> dmi_ok, disable_dmi |-> no_dmi]

Memory_b_transport(M, tr) ==
    LET adr == tr.address
        len == tr.data_length
        wid == tr.streaming_width
    IN  IF adr.w >= Memory_SIZE \div 4 \/ (4 * adr.w + adr.b + len) > Memory_SIZE
        THEN [Mem |-> M, trans |-> [tr EXCEPT !.response_status = "ADDRESS_ERROR"]]
        ELSE IF len > 4 \/ wid < len
        THEN [Mem |-> M, trans |-> [tr EXCEPT !.response_status = "BURST_ERROR"]]
        ELSE
          LET base == 4 * adr.w + adr.b
              data1 == IF tr.command = "READ"
                       THEN [i \in 1 .. Len(tr.data) |->
                               IF i <= len THEN M.mem[base + i - 1] ELSE tr.data[i]]
                       ELSE tr.data
              mem1 == IF tr.command = "WRITE"
                      THEN [c \in DOMAIN M.mem |->
                              IF c >= base /\ c < base + len
                              THEN tr.data[c - base + 1] ELSE M.mem[c]]
                      ELSE M.mem
          IN  [Mem |-> [M EXCEPT !.mem = mem1],
               trans |-> [tr EXCEPT !.data = data1,
                                    !.dmi_allowed = M.dmi_allowed,
                                    !.response_status = "OK"]]

Memory_get_direct_mem_ptr(M) ==
    IF M.disable_dmi THEN FALSE
    ELSE IF ~M.dmi_allowed THEN FALSE
    ELSE TRUE

(***************************************************************************)
(* DMA (src/inc/DMA.h).  d = [src, dst, len, control, in_flight, bound,    *)
(* pos, buffer]: bound is what mem_master is bound to, pos the place       *)
(* start_transfer has reached ("idle" when it is not running).             *)
(***************************************************************************)
DMA0(bound) ==
    [src |-> Zero4, dst |-> Zero4, len |-> Zero4, control |-> Zero4,
     in_flight |-> FALSE, bound |-> bound, pos |-> "idle", buffer |-> <<>>]

\* start_transfer up to its first bus operation.
start_transfer_begin(d) ==
    IF U32(d.len) = 0 THEN d
    ELSE IF d.bound = "none" THEN d
    ELSE [d EXCEPT !.in_flight = TRUE,
                   !.buffer = [i \in 1 .. U32(d.len) |-> 0],
                   !.pos = "read"]

DMA_reg(adr) ==
    IF adr.b # 0 THEN "none"
    ELSE IF adr.w = 0 THEN "src"
    ELSE IF adr.w = 1 THEN "dst"
    ELSE IF adr.w = 2 THEN "len"
    ELSE IF adr.w = 3 THEN "control"
    ELSE "none"

\* DMA::b_transport; a control write with bit 0 set enters start_transfer,
\* whose bus operations follow as DMA_read and DMA_write.
DMA_b_transport(d, tr) ==
    IF tr.data_length # 4
    THEN [dma |-> d, trans |-> [tr EXCEPT !.response_status = "BURST_ERROR"]]
    ELSE
      LET reg == DMA_reg(tr.address)
          wr == tr.command = "WRITE"
          val == IF wr THEN SubSeq(tr.data, 1, 4)
                 ELSE IF reg = "none" THEN Zero4 ELSE d[reg]
          d1 == IF wr /\ reg # "none" THEN [d EXCEPT ![reg] = val] ELSE d
          d2 == IF wr /\ reg = "control" /\ val[1] % 2 = 1
                THEN start_transfer_begin(d1) ELSE d1
          data1 == IF tr.command = "READ"
                   THEN [i \in 1 .. Len(tr.data) |->
                           IF i <= 4 THEN val[i] ELSE tr.data[i]]
                   ELSE tr.data
      IN  [dma |-> d2,
           trans |-> [tr EXCEPT !.data = data1, !.response_status = "OK"]]

(***************************************************************************)
(* BusCtrl::b_transport (src/src/BusCtrl.cpp).  The result names the       *)
(* targets whose b_transport was called (delivered), the status the target *)
(* left in the transaction (target_status, "NONE" without a target) and    *)
(* whether sc_stop() was called.  The other peripherals keep no state the  *)
(* claims are about; every optional socket is bound (VPTop.cpp:131-138).   *)
(***************************************************************************)
BusResult(M, d, tr, delivered, tstat, stop) ==
    [Mem |-> M, dma |-> d, trans |-> tr, delivered |-> delivered,
     target_status |-> tstat, stop |-> stop]

InRange_inclusive(adr, base, words) == adr.w >= base /\ adr.w <= base + words

\* adr_bytes >= BASE && adr_bytes < BASE + size, on word indices
InRange(adr, base, words) == adr.w >= base /\ adr.w < base + words

BusCtrl_b_transport(M, d, tr) ==
    LET adr == tr.address
        ok == [tr EXCEPT !.response_status = "OK"]
    IN  IF adr.w = TO_HOST_ADDRESS
        THEN BusResult(M, d, ok, {}, "NONE", TRUE)
        ELSE IF /\ adr.w = TOHOST_WORD
                /\ tr.command = "WRITE"
                /\ tr.data_length >= 4
                /\ NonZero4(tr.data)
        THEN BusResult(M, d, tr, {}, "NONE", TRUE)
        ELSE IF InRange(adr, UART0_BASE_ADDRESS, 64)
        THEN BusResult(M, d, ok, {"uart"}, "NONE", FALSE)
        ELSE IF InRange(adr, CLINT_BASE_ADDRESS, 16384)
        THEN BusResult(M, d, ok, {"clint"}, "NONE", FALSE)
        ELSE IF InRange(adr, PLIC_BASE_ADDRESS, 1048576)
        THEN BusResult(M, d, ok, {"plic"}, "NONE", FALSE)
        ELSE IF InRange(adr, DMA_BASE_ADDRESS, 1024)
        THEN LET r == DMA_b_transport(d, tr)
             IN  BusResult(M, r.dma, [r.trans EXCEPT !.response_status = "OK"],
                           {"dma"}, r.trans.response_status, FALSE)
        ELSE IF InRange(adr, SYSCALL_BASE_ADDRESS, 1024)
        THEN BusResult(M, d, ok, {"syscall"}, "NONE", FALSE)
        ELSE IF adr.w \in {TIMER_MEMORY_ADDRESS_HI, TIMER_MEMORY_ADDRESS_LO,
                           TIMERCMP_MEMORY_ADDRESS_HI, TIMERCMP_MEMORY_ADDRESS_LO}
        THEN BusResult(M, d, ok, {"timer"}, "NONE", FALSE)
        ELSE IF adr.w = TRACE_MEMORY_ADDRESS
        THEN BusResult(M, d, ok, {"trace"}, "NONE", FALSE)
        ELSE LET r == Memory_b_transport(M, tr)
             IN  BusResult(r.Mem, d, [r.trans EXCEPT !.response_status = "OK"],
                           {"memory"}, r.trans.response_status, FALSE)

(***************************************************************************)
(* The platform state: MainMemory, dma, and plat = [dmi_ptr_valid, the DMI *)
(* pointer cached by the instruction initiator; sc_stop, whether sc_stop() *)
(* has been called].  g_bus is history: the last operation of a master     *)
(* (last), the last store of the memory interface not yet followed by      *)
(* another change of memory (wr), the DMA transfer under way or finished   *)
(* last (xfer) and the IF stage's view of the DMA flag.                    *)
(***************************************************************************)
NoOp ==
    [fn |-> "none", cmd |-> "NONE", address |-> Adr(0, 0), len |-> 0,
     data |-> <<>>, status |-> "NONE", target_status |-> "NONE",
     delivered |-> {}, stop |-> FALSE, reported |-> FALSE,
     dmi_before |-> FALSE, modified |-> FALSE, after_wr |-> FALSE,
     written |-> <<>>]

NoWrite == [valid |-> FALSE, address |-> Adr(0, 0), size |-> 0, data |-> <<>>]

NoXfer ==
    [started |-> 0, finished |-> 0, src |-> Zero4, dst |-> Zero4, len |-> 0,
     if_seen |-> 0, read_status |-> "NONE", write_status |-> "NONE",
     completed |-> FALSE, returned |-> FALSE, start_at_return |-> FALSE,
     in_flight_at_return |-> FALSE]

GBus0 ==
    [n |-> 0, last |-> NoOp, wr |-> NoWrite, xfer |-> NoXfer,
     if_entries |-> 0, if_stalls |-> 0]

Plat0 == [dmi_ptr_valid |-> FALSE, sc_stop |-> FALSE]

\* The platform as the specifications of the cores keep it: untouched.
PlatformIdle ==
    /\ MainMemory = Memory0(FALSE, FALSE)
    /\ dma = DMA0("bus")
    /\ plat = Plat0
    /\ g_bus = GBus0


(***************************************************************************)
(* Programs: every sequence of ProgLen instructions over InstrSet,         *)
(* loaded at address 0; memory beyond the image holds zero words.          *)
(***************************************************************************)
InstrSet ==
    {ADDI(1, 0, 5), ADDI(1, 0, 7), ADDI(3, 0, 42), ADD(3, 1, 1), BEQ(0, 0, 8),
     BNE(1, 0, 8), JAL(5, -4), SW(1, 0, 64), LW(3, 0, 64), ADDI(17, 0, 93), ECALL,
     CUSTOM0(1)}

Programs == [0 .. (ProgLen - 1) -> InstrSet]

Programs32 == [0 .. (ProgLen32 - 1) -> InstrSet]

IrqCauses == {11}

(***************************************************************************)
(* Specification of the RV64 6-stage core                                  *)
(***************************************************************************)
Init64 ==
    /\ core = "P64_6"
    /\ PlatformIdle
    /\ imem \in Programs
    /\ \E mie \in BOOLEAN : c64 = CPU64_0(0, mie)
    /\ c32 = CPU32_0(0, FALSE)
    /\ p2 = CPU2_0(0, FALSE, 0)
    /\ pc2 = CPU_Cycle_0(0, FALSE, 0, FALSE)
    /\ at2 = CPU_AT_0(0, FALSE, 0)

\* cycle_thread: one clock cycle, until sc_stop() has been requested.
Cycle64 ==
    /\ ~c64.stopped
    /\ c64.stats.cycles < MaxCycles
    /\ c64' = cycle_thread64(c64, imem)
    /\ UNCHANGED <<busvars, imem, core, c32, p2, pc2, at2>>

\* call_interrupt: the IRQ line socket callback.
call_interrupt64 ==
    /\ ~c64.interrupt
    /\ \E cause \in IrqCauses :
          c64' = [c64 EXCEPT !.interrupt = TRUE, !.int_cause = cause]
    /\ UNCHANGED <<busvars, imem, core, c32, p2, pc2, at2>>

Next64 == Cycle64 \/ call_interrupt64

Spec64 == Init64 /\ [][Next64]_vars

(***************************************************************************)
(* The RV64 6-stage core with an instruction target that answers some      *)
(* fetches with an error status.                                           *)
(***************************************************************************)
FaultyPrograms ==
    {p \in [0 .. (ProgLen - 1) -> {ADDI(1, 0, 5), BEQ(0, 0, 8), ECALL, ErrorResponse}] :
        \E k \in DOMAIN p : p[k] = ErrorResponse}

InitFetchErr ==
    /\ core = "P64_6"
    /\ PlatformIdle
    /\ imem \in FaultyPrograms
    /\ \E mie \in BOOLEAN : c64 = CPU64_0(0, mie)
    /\ c32 = CPU32_0(0, FALSE)
    /\ p2 = CPU2_0(0, FALSE, 0)
    /\ pc2 = CPU_Cycle_0(0, FALSE, 0, FALSE)
    /\ at2 = CPU_AT_0(0, FALSE, 0)

SpecFetchErr == InitFetchErr /\ [][Next64]_vars

(***************************************************************************)
(* Specification of the RV32 6-stage core                                  *)
(***************************************************************************)
Init32 ==
    /\ core = "P32_6"
    /\ PlatformIdle
    /\ imem \in Programs32
    /\ \E mie \in BOOLEAN : c32 = CPU32_0(0, mie)
    /\ c64 = CPU64_0(0, FALSE)
    /\ p2 = CPU2_0(0, FALSE, 0)
    /\ pc2 = CPU_Cycle_0(0, FALSE, 0, FALSE)
    /\ at2 = CPU_AT_0(0, FALSE, 0)

Cycle32 ==
    /\ ~c32.stopped
    /\ c32.stats.cycles < MaxCycles32
    /\ c32' = cycle_thread32(c32, imem)
    /\ UNCHANGED <<busvars, imem, core, c64, p2, pc2, at2>>

call_interrupt32 ==
    /\ ~c32.interrupt
    /\ \E cause \in IrqCauses :
          c32' = [c32 EXCEPT !.interrupt = TRUE, !.int_cause = cause]
    /\ UNCHANGED <<busvars, imem, core, c64, p2, pc2, at2>>

Next32 == Cycle32 \/ call_interrupt32

Spec32 == Init32 /\ [][Next32]_vars

(***************************************************************************)
(* The RV64 6-stage core running a program that never ends, with the clock *)
(* ticking forever.  To keep the state space finite the counters the code  *)
(* only writes are dropped, stats.cycles (only ever compared with the      *)
(* grace period) saturates just above it, and the history is not kept.     *)
(***************************************************************************)
Forget64(s) ==
    [s EXCEPT !.stats = [cycles |-> IF s.stats.cycles > GraceCycles
                                    THEN GraceCycles + 1 ELSE s.stats.cycles,
                         instructions |-> 0, stalls |-> 0, branches |-> 0],
              !.g_inflight = <<>>, !.g_issue_count = 0, !.g_retire_count = 0,
              !.g_bus_writes = 0, !.g_last_issue = NoIssue,
              !.g_last_retire = NoRetire, !.g_last_ex = NoExec]

\* Programs that loop between addresses 0 and 4 forever.
IdlePrograms ==
    {p \in Programs : p[1] = JAL(5, -4) /\ p[0] \notin {JAL(5, -4), BEQ(0, 0, 8)}}

InitIrq64 ==
    /\ core = "P64_6"
    /\ PlatformIdle
    /\ imem \in IdlePrograms
    /\ \E mie \in BOOLEAN : c64 = CPU64_0(0, mie)
    /\ c32 = CPU32_0(0, FALSE)
    /\ p2 = CPU2_0(0, FALSE, 0)
    /\ pc2 = CPU_Cycle_0(0, FALSE, 0, FALSE)
    /\ at2 = CPU_AT_0(0, FALSE, 0)

\* One iteration of cycle_thread's loop, the stages of cycle_thread64 applied
\* one after the other.
CycleIrq64 ==
    /\ ~c64.stopped
    /\ \E s0 \in {LatchTransfer64(c64)} :
       \E s1 \in {Commit_stage(s0)} :
       \E s2 \in {EX_stage(s1)} :
       \E s3 \in {Issue_stage(s2)} :
       \E s4 \in {ID_stage(s3)} :
       \E s5 \in {Fetch_stage(s4, imem)} :
       \E s6 \in {PCGen_stage(s5)} :
          c64' = Forget64(EndOfCycle64(s6))
    /\ UNCHANGED <<busvars, imem, core, c32, p2, pc2, at2>>

NextIrq64 == CycleIrq64 \/ call_interrupt64

\* The clock drives cycle_thread at every rising edge.
SpecIrq64 == InitIrq64 /\ [][NextIrq64]_vars /\ WF_vars(CycleIrq64)

(***************************************************************************)
(* Specification of the 2-stage cores.  Programs start with an instruction *)
(* that keeps PC inside memory; mtvec points into the program.             *)
(***************************************************************************)
InstrSet2 ==
    InstrSet \ {ADDI(1, 0, 7), ADDI(3, 0, 42), ADD(3, 1, 1), LW(3, 0, 64), CUSTOM0(1)}

Programs2 == {p \in [0 .. (ProgLen - 1) -> InstrSet2] : p[0] # JAL(5, -4)}

MtvecSet == {8}

Cores2 == {"P64_2", "P64_2_Cycle", "P32_2_AT"}

Init2 ==
    /\ core \in Cores2
    /\ PlatformIdle
    /\ imem \in Programs2
    /\ c64 = CPU64_0(0, FALSE)
    /\ c32 = CPU32_0(0, FALSE)
    /\ \E mie \in BOOLEAN, mtvec \in MtvecSet, down \in BOOLEAN, dmi \in BOOLEAN :
          /\ p2 = IF core = "P64_2"
                  THEN [CPU2_0(0, mie, mtvec) EXCEPT !.irq_already_down = down]
                  ELSE CPU2_0(0, FALSE, 0)
          /\ pc2 = IF core = "P64_2_Cycle"
                   THEN [CPU_Cycle_0(0, mie, mtvec, dmi) EXCEPT !.irq_already_down = down]
                   ELSE CPU_Cycle_0(0, FALSE, 0, FALSE)
          /\ at2 = IF core = "P32_2_AT"
                   THEN [CPU_AT_0(0, mie, mtvec) EXCEPT !.irq_already_down = down]
                   ELSE CPU_AT_0(0, FALSE, 0)

\* CPU::CPU_thread, first half: CPU_step() up to its wait.
Step_P2 ==
    /\ core = "P64_2"
    /\ p2.phase = "step"
    /\ ~p2.stopped
    /\ p2.g_steps < MaxSteps2
    /\ CPU_step_P2(p2, p2', imem)
    /\ UNCHANGED <<busvars, imem, core, c64, c32, pc2, at2>>

\* CPU::CPU_thread, second half: cpu_process_IRQ() after the wait.
PollIRQ_P2 ==
    /\ core = "P64_2"
    /\ p2.phase = "wait"
    /\ p2' = Poll_P2(p2)
    /\ UNCHANGED <<busvars, imem, core, c64, c32, pc2, at2>>

\* CPURV64P2::call_interrupt, run by the interrupt controller while the CPU waits.
call_interrupt_P2 ==
    /\ core = "P64_2"
    /\ p2.phase = "wait"
    /\ ~p2.interrupt
    /\ \E cause \in IrqCauses :
          p2' = [p2 EXCEPT !.interrupt = TRUE, !.int_cause = cause]
    /\ UNCHANGED <<busvars, imem, core, c64, c32, pc2, at2>>

Thread_AT ==
    /\ core = "P32_2_AT"
    /\ ~at2.stopped
    /\ at2.g_steps < MaxSteps2
    /\ pipeline_thread_AT(at2, at2', imem)
    /\ UNCHANGED <<busvars, imem, core, c64, c32, p2, pc2>>

call_interrupt_AT ==
    /\ core = "P32_2_AT"
    /\ ~at2.interrupt
    /\ \E cause \in IrqCauses :
          at2' = [at2 EXCEPT !.interrupt = TRUE, !.int_cause = cause]
    /\ UNCHANGED <<busvars, imem, core, c64, c32, p2, pc2>>

Posedge_Cycle ==
    /\ core = "P64_2_Cycle"
    /\ pc2.phase = "posedge"
    /\ ~pc2.stopped
    /\ pc2.g_steps < MaxSteps2
    /\ on_posedge(pc2, pc2')
    /\ UNCHANGED <<busvars, imem, core, c64, c32, p2, at2>>

Negedge_Cycle ==
    /\ core = "P64_2_Cycle"
    /\ pc2.phase = "negedge"
    /\ on_negedge(pc2, pc2', imem)
    /\ UNCHANGED <<busvars, imem, core, c64, c32, p2, at2>>

call_interrupt_Cycle ==
    /\ core = "P64_2_Cycle"
    /\ ~pc2.interrupt
    /\ \E cause \in IrqCauses :
          pc2' = [pc2 EXCEPT !.interrupt = TRUE, !.int_cause = cause]
    /\ UNCHANGED <<busvars, imem, core, c64, c32, p2, at2>>

Next2 ==
    \/ Step_P2
    \/ PollIRQ_P2
    \/ call_interrupt_P2
    \/ Thread_AT
    \/ call_interrupt_AT
    \/ Posedge_Cycle
    \/ Negedge_Cycle
    \/ call_interrupt_Cycle

Spec2 == Init2 /\ [][Next2]_vars

(***************************************************************************)
(* The same program run on a platform built with the LT 2-stage core       *)
(* (CPURV64P2) and on one built with the 6-stage core (CPURV64P6_Cycle),   *)
(* one run after the other, each from reset and with no interrupt raised.  *)
(* A run ends when its core has called sc_stop().                          *)
(***************************************************************************)
InitEq ==
    /\ core = "P64_2, P64_6"
    /\ PlatformIdle
    /\ imem \in Programs
    /\ c64 = CPU64_0(0, FALSE)
    /\ c32 = CPU32_0(0, FALSE)
    /\ p2 = CPU2_0(0, FALSE, 0)
    /\ pc2 = CPU_Cycle_0(0, FALSE, 0, FALSE)
    /\ at2 = CPU_AT_0(0, FALSE, 0)

\* CPU::CPU_thread of the 2-stage core: CPU_step() up to its wait.
EqStep_P2 ==
    /\ core = "P64_2, P64_6"
    /\ p2.phase = "step"
    /\ ~p2.stopped
    /\ p2.g_steps < MaxSteps2
    /\ CPU_step_P2(p2, p2', imem)
    /\ UNCHANGED <<busvars, imem, core, c64, c32, pc2, at2>>

\* CPU::CPU_thread of the 2-stage core: cpu_process_IRQ() after the wait.
EqPoll_P2 ==
    /\ core = "P64_2, P64_6"
    /\ p2.phase = "wait"
    /\ ~p2.stopped
    /\ p2' = Poll_P2(p2)
    /\ UNCHANGED <<busvars, imem, core, c64, c32, pc2, at2>>

\* cycle_thread of the 6-stage core: one clock cycle.
EqCycle64 ==
    /\ core = "P64_2, P64_6"
    /\ p2.stopped
    /\ ~c64.stopped
    /\ c64.stats.cycles < MaxCycles
    /\ c64' = cycle_thread64(c64, imem)
    /\ UNCHANGED <<busvars, imem, core, c32, p2, pc2, at2>>

NextEq == EqStep_P2 \/ EqPoll_P2 \/ EqCycle64

SpecEq == InitEq /\ [][NextEq]_vars

(***************************************************************************)
(* Specification of the platform: the CPU's memory interface and its       *)
(* instruction port drive the bus fabric (bindings of VPTop.cpp:128-140).  *)
(* A blocking transport runs to its end before the caller does anything    *)
(* else, so each operation of a master is one step.                        *)
(***************************************************************************)
MaxBusOps == 2

Val8 == <<1, 2, 3, 4, 5, 6, 7, 8>>

\* MemoryInterface: the transaction each operation submits on data_bus.
MemoryInterface_readDataMem64(addr, size) == Trans0("READ", addr, Zero8, size, size)

MemoryInterface_writeDataMem64(addr, data, size) == Trans0("WRITE", addr, data, size, size)

MemoryInterface_writeDataMem(addr, data, size) == Trans0("WRITE", addr, data, size, 4)

\* Addresses of main memory, inside and at the end of the array and beyond it.
MemAddrs ==
    {Adr(0, 0), Adr(2, 0), Adr(UART0_BASE_ADDRESS + 64, 0),
     Adr(Memory_SIZE \div 4 - 1, 2), Adr(Memory_SIZE \div 4, 0)}

\* Addresses the fabric decodes: the first and last word of a range, the
\* registers of the DMA, the single words.
MappedAddrs ==
    {Adr(UART0_BASE_ADDRESS, 0), Adr(UART0_BASE_ADDRESS + 63, 3),
     Adr(CLINT_BASE_ADDRESS, 0), Adr(PLIC_BASE_ADDRESS, 0),
     Adr(DMA_BASE_ADDRESS, 0), Adr(DMA_BASE_ADDRESS + 1, 0),
     Adr(DMA_BASE_ADDRESS + 2, 0), Adr(DMA_BASE_ADDRESS + 3, 0),
     Adr(SYSCALL_BASE_ADDRESS, 0), Adr(TRACE_MEMORY_ADDRESS, 0),
     Adr(TIMER_MEMORY_ADDRESS_LO, 0), Adr(TIMERCMP_MEMORY_ADDRESS_HI, 0),
     Adr(TOHOST_WORD, 0), Adr(TO_HOST_ADDRESS, 0)}

BusAddrs == MemAddrs \cup MappedAddrs

DataOps ==
    [fn : {"readDataMem64"}, address : BusAddrs, size : {1, 2, 4, 8}, data : {Zero8}]
    \cup [fn : {"writeDataMem64"}, address : BusAddrs, size : {1, 2, 4, 8},
          data : {Zero8, Val8}]
    \cup [fn : {"writeDataMem"}, address : BusAddrs, size : {1, 2, 4},
          data : {Zero4, SubSeq(Val8, 1, 4)}]

DataTrans(op) ==
    IF op.fn = "readDataMem64" THEN MemoryInterface_readDataMem64(op.address, op.size)
    ELSE IF op.fn = "writeDataMem64"
    THEN MemoryInterface_writeDataMem64(op.address, op.data, op.size)
    ELSE MemoryInterface_writeDataMem(op.address, op.data, op.size)

\* The history of one operation of a master.
OpRecord(fn, tr0, r, g, p, M) ==
    [fn |-> fn, cmd |-> tr0.command, address |-> tr0.address,
     len |-> tr0.data_length, data |-> r.trans.data,
     status |-> r.trans.response_status, target_status |-> r.target_status,
     delivered |-> r.delivered, stop |-> r.stop,
     reported |-> is_response_error(r.trans),
     dmi_before |-> p.dmi_ptr_valid, modified |-> r.Mem.mem # M.mem,
     after_wr |-> /\ g.wr.valid
                  /\ tr0.command = "READ"
                  /\ g.wr.address = tr0.address
                  /\ g.wr.size = tr0.data_length,
     written |-> g.wr.data]

WrRecord(fn, tr0, r, g, M) ==
    IF fn = "writeDataMem64"
    THEN [valid |-> TRUE, address |-> tr0.address, size |-> tr0.data_length,
          data |-> SubSeq(tr0.data, 1, tr0.data_length)]
    ELSE IF tr0.command = "WRITE" \/ r.Mem.mem # M.mem THEN NoWrite
    ELSE g.wr

\* One load or store of the executing instruction, through the memory
\* interface and cpu_data_socket.
CpuData ==
    /\ core = "VPTop"
    /\ dma.pos = "idle"
    /\ ~plat.sc_stop
    /\ g_bus.n < MaxBusOps
    /\ \E op \in DataOps :
       \E tr0 \in {DataTrans(op)} :
       \E r \in {BusCtrl_b_transport(MainMemory, dma, tr0)} :
          /\ MainMemory' = r.Mem
          /\ dma' = r.dma
          /\ plat' = [plat EXCEPT !.sc_stop = @ \/ r.stop]
          /\ g_bus' = [g_bus EXCEPT
                         !.n = @ + 1,
                         !.last = OpRecord(op.fn, tr0, r, g_bus, plat, MainMemory),
                         !.wr = WrRecord(op.fn, tr0, r, g_bus, MainMemory)]
    /\ UNCHANGED <<imem, c64, c32, p2, pc2, at2, core>>

\* CPURV32P6_Cycle::fetch_instruction: the DMI pointer when it is cached,
\* else a 4-byte read on cpu_instr_socket followed by the DMI request.
InstrFetch ==
    /\ core = "VPTop"
    /\ dma.pos = "idle"
    /\ ~plat.sc_stop
    /\ g_bus.n < MaxBusOps
    /\ \E pc \in {Adr(0, 0), Adr(1, 0)} :
       \E tr0 \in {Trans0("READ", pc, Zero4, 4, 4)} :
       \E r \in {IF plat.dmi_ptr_valid
                 THEN BusResult(MainMemory, dma,
                                [tr0 EXCEPT !.data = [i \in 1 .. 4 |->
                                               MainMemory.mem[4 * pc.w + pc.b + i - 1]],
                                            !.response_status = "OK"],
                                {}, "NONE", FALSE)
                 ELSE BusCtrl_b_transport(MainMemory, dma, tr0)} :
          /\ MainMemory' = r.Mem
          /\ dma' = r.dma
          /\ plat' = [plat EXCEPT
                        !.sc_stop = @ \/ r.stop,
                        !.dmi_ptr_valid =
                            IF @ THEN TRUE
                            ELSE IF is_response_error(r.trans) THEN FALSE
                            ELSE IF r.trans.dmi_allowed
                            THEN Memory_get_direct_mem_ptr(r.Mem)
                            ELSE FALSE]
          /\ g_bus' = [g_bus EXCEPT
                         !.n = @ + 1,
                         !.last = OpRecord(IF plat.dmi_ptr_valid THEN "dmi_read"
                                           ELSE "fetch_instruction",
                                           tr0, r, g_bus, plat, MainMemory),
                         !.wr = WrRecord("fetch_instruction", tr0, r, g_bus, MainMemory)]
    /\ UNCHANGED <<imem, c64, c32, p2, pc2, at2, core>>

InitBus ==
    /\ core = "VPTop"
    /\ imem = [i \in 0 .. (ProgLen - 1) |-> ZeroWord]
    /\ c64 = CPU64_0(0, FALSE)
    /\ c32 = CPU32_0(0, FALSE)
    /\ p2 = CPU2_0(0, FALSE, 0)
    /\ pc2 = CPU_Cycle_0(0, FALSE, 0, FALSE)
    /\ at2 = CPU_AT_0(0, FALSE, 0)
    /\ \E dmi_ok \in BOOLEAN, no_dmi \in BOOLEAN :
          MainMemory = Memory0(dmi_ok, no_dmi)
    /\ dma = DMA0("bus")
    /\ plat = Plat0
    /\ g_bus = GBus0

NextBus == CpuData \/ InstrFetch

SpecBus == InitBus /\ [][NextBus]_vars

(***************************************************************************)
(* Specification of the DMA engine: its register socket is driven with the *)
(* offsets of its register map, its mem_master is bound to the bus fabric  *)
(* (VPTop.cpp:140), to the memory directly, or not at all.  start_transfer *)
(* runs inside the control write without a wait(), so from its first line  *)
(* to its return no other process runs: while dma.pos is not "idle" only   *)
(* the transfer itself takes steps.  IF_entry is the pipeline reaching the *)
(* DMA test at the top of its IF stage.                                    *)
(***************************************************************************)
MaxDmaOps == 5

MaxIfEntries == 2

DmaRegOps ==
    [cmd : {"WRITE"}, w : {0}, val : {<<254, 255, 255, 31>>}, bytes : {4}]
    \cup [cmd : {"WRITE"}, w : {1}, val : {<<8, 0, 0, 0>>, <<0, 16, 0, 128>>}, bytes : {4}]
    \cup [cmd : {"WRITE"}, w : {2}, val : {<<4, 0, 0, 0>>, <<8, 0, 0, 0>>}, bytes : {4}]
    \cup [cmd : {"WRITE"}, w : {3}, val : {<<1, 0, 0, 0>>, <<2, 0, 0, 0>>}, bytes : {4}]
    \cup [cmd : {"READ"}, w : {0, 3}, val : {Zero4}, bytes : {4, 2}]

\* mem_master->b_transport: the target the socket is bound to.
mem_master_b_transport(M, d, tr) ==
    IF d.bound = "bus" THEN BusCtrl_b_transport(M, d, tr)
    ELSE LET r == Memory_b_transport(M, tr)
         IN  BusResult(r.Mem, d, r.trans, {"memory"}, r.trans.response_status, FALSE)

\* start_transfer, the bus read: the transaction, and the engine after it.
start_transfer_read_trans(d) ==
    Trans0("READ", AdrOf(d.src), d.buffer, U32(d.len), U32(d.len))

start_transfer_after_read(d, tr) ==
    IF tr.response_status # "OK"
    THEN [d EXCEPT !.in_flight = FALSE, !.pos = "idle", !.buffer = <<>>]
    ELSE [d EXCEPT !.buffer = tr.data, !.pos = "write"]

\* start_transfer, the bus write and the end.
start_transfer_write_trans(d) ==
    [Trans0("WRITE", AdrOf(d.dst), d.buffer, U32(d.len), U32(d.len))
        EXCEPT !.dmi_allowed = FALSE]

start_transfer_after_write(d) ==
    [d EXCEPT !.control = StartCleared(@), !.in_flight = FALSE,
              !.pos = "idle", !.buffer = <<>>]

\* A 4-byte (or malformed) access to a register of the DMA.
DmaReg ==
    /\ core = "DMA"
    /\ dma.pos = "idle"
    /\ ~plat.sc_stop
    /\ g_bus.n < MaxDmaOps
    /\ \E op \in DmaRegOps :
       \E tr0 \in {Trans0(op.cmd, Adr(op.w, 0), op.val, op.bytes, 4)} :
       \E rr \in {DMA_b_transport(dma, tr0)} :
       \E r \in {BusResult(MainMemory, rr.dma, rr.trans, {"dma"},
                           rr.trans.response_status, FALSE)} :
          /\ dma' = rr.dma
          /\ g_bus' = [g_bus EXCEPT
                         !.n = @ + 1,
                         !.last = OpRecord("dma_socket", tr0, r, g_bus, plat, MainMemory),
                         !.xfer = IF rr.dma.pos = "read"
                                  THEN [NoXfer EXCEPT
                                          !.started = g_bus.xfer.started + 1,
                                          !.finished = g_bus.xfer.finished,
                                          !.src = rr.dma.src, !.dst = rr.dma.dst,
                                          !.len = U32(rr.dma.len)]
                                  ELSE @]
    /\ UNCHANGED <<imem, c64, c32, p2, pc2, at2, core, MainMemory, plat>>

DMA_read ==
    /\ core = "DMA"
    /\ dma.pos = "read"
    /\ \E r \in {mem_master_b_transport(MainMemory, dma, start_transfer_read_trans(dma))} :
       \E d \in {start_transfer_after_read(r.dma, r.trans)} :
          /\ MainMemory' = r.Mem
          /\ dma' = d
          /\ plat' = [plat EXCEPT !.sc_stop = @ \/ r.stop]
          /\ g_bus' = [g_bus EXCEPT
                         !.xfer.read_status = r.trans.response_status,
                         !.xfer.returned = d.pos = "idle",
                         !.xfer.start_at_return = d.control[1] % 2 = 1,
                         !.xfer.in_flight_at_return = d.in_flight]
    /\ UNCHANGED <<imem, c64, c32, p2, pc2, at2, core>>

DMA_write ==
    /\ core = "DMA"
    /\ dma.pos = "write"
    /\ \E r \in {mem_master_b_transport(MainMemory, dma, start_transfer_write_trans(dma))} :
       \E d \in {start_transfer_after_write(r.dma)} :
          /\ MainMemory' = r.Mem
          /\ dma' = d
          /\ plat' = [plat EXCEPT !.sc_stop = @ \/ r.stop]
          /\ g_bus' = [g_bus EXCEPT
                         !.xfer.write_status = r.trans.response_status,
                         !.xfer.finished = @ + 1,
                         !.xfer.completed = TRUE,
                         !.xfer.returned = TRUE,
                         !.xfer.start_at_return = d.control[1] % 2 = 1,
                         !.xfer.in_flight_at_return = d.in_flight]
    /\ UNCHANGED <<imem, c64, c32, p2, pc2, at2, core>>

\* CPURV32P6_Cycle::IF_stage, the loop on DMA::is_in_flight(): the pipeline
\* thread reaches it between two of its own bus operations.
IF_entry ==
    /\ core = "DMA"
    /\ dma.pos = "idle"
    /\ ~plat.sc_stop
    /\ g_bus.if_entries < MaxIfEntries
    /\ g_bus' = [g_bus EXCEPT
                   !.if_entries = @ + 1,
                   !.if_stalls = IF dma.in_flight THEN @ + 1 ELSE @,
                   !.xfer.if_seen = IF dma.in_flight THEN @ + 1 ELSE @]
    /\ UNCHANGED <<imem, c64, c32, p2, pc2, at2, core, MainMemory, dma, plat>>

InitDma ==
    /\ core = "DMA"
    /\ imem = [i \in 0 .. (ProgLen - 1) |-> ZeroWord]
    /\ c64 = CPU64_0(0, FALSE)
    /\ c32 = CPU32_0(0, FALSE)
    /\ p2 = CPU2_0(0, FALSE, 0)
    /\ pc2 = CPU_Cycle_0(0, FALSE, 0, FALSE)
    /\ at2 = CPU_AT_0(0, FALSE, 0)
    /\ MainMemory = Memory0(TRUE, FALSE)
    /\ dma \in {DMA0(b) : b \in {"bus", "memory", "none"}}
    /\ plat = Plat0
    /\ g_bus = GBus0

NextDma == DmaReg \/ DMA_read \/ DMA_write \/ IF_entry

SpecDma == InitDma /\ [][NextDma]_vars

(***************************************************************************)
(* Claims about the RV64 6-stage core                                      *)
(***************************************************************************)

\* C1: the rs1 and rs2 values an instruction reads from the register file at
\* Issue are the values produced by the latest older instruction that writes
\* that register (g_arch_regs holds the results in program order).
C1_IssueReadsLatestWriter ==
    c64.g_last_issue.valid => ~c64.g_last_issue.stale

\* C2: after EX resolves a taken branch or jump, the younger instructions in
\* the PCGen->IF, IF->ID and ID->IS latches are never issued: every
\* instruction issued is the one program order expects (the redirect target
\* right after a taken branch), only issued instructions execute, and every
\* issued instruction, the branch included, keeps its ROB entry and retires
\* two cycles after it was issued.
C2_FlushedNeverIssued ==
    /\ c64.g_last_issue.valid => c64.g_last_issue.pc = c64.g_last_issue.exp_pc
    /\ c64.g_last_ex.valid =>
           \E k \in 1 .. Len(c64.g_inflight) : c64.g_inflight[k].pc = c64.g_last_ex.pc
    /\ \A k \in 1 .. Len(c64.g_inflight) :
           /\ c64.rob.entries[c64.g_inflight[k].rob_index].valid
           /\ c64.stats.cycles - c64.g_inflight[k].cycle <= 2
    /\ \A r \in Regs : c64.scoreboard[r] =>
           \E k \in 1 .. Len(c64.g_inflight) : c64.g_inflight[k].rd = r

\* Witness of C2: the instruction at the redirect target has just been issued
\* after a taken branch flushed the pipeline, and the branch has retired.
C2_Witness ==
    /\ c64.g_last_issue.valid
    /\ c64.g_last_issue.after_redirect
    /\ c64.g_last_issue.pc # c64.g_last_issue.seq * 4 - 4
    /\ Len(c64.g_inflight) = 1

\* C4: instructions retire, and write the register file, in the order in
\* which they were issued; the ROB hands out and frees its slots in FIFO
\* order, also when the indices wrap around.
C4_RetireInIssueOrder ==
    /\ c64.g_last_retire.valid =>
           /\ c64.g_last_retire.seq = c64.g_last_retire.exp_seq
           /\ c64.g_last_retire.pc # -1
    /\ c64.rob.count = Len(c64.g_inflight)
    /\ \A k \in 1 .. Len(c64.g_inflight) :
           /\ c64.g_inflight[k].rob_index = (c64.rob.head + k - 1) % ROB_SIZE
           /\ c64.rob.entries[c64.g_inflight[k].rob_index].pc = c64.g_inflight[k].pc
    /\ c64.rob.tail = (c64.rob.head + c64.rob.count) % ROB_SIZE

\* Witness of C4: an instruction retires from a slot that is in use for the
\* second time (head and tail have both wrapped around the ring) while a
\* younger instruction is still waiting behind it.
C4_Witness ==
    /\ c64.g_last_retire.valid
    /\ c64.g_last_retire.seq > ROB_SIZE
    /\ c64.rob.head < ROB_SIZE - 1
    /\ c64.rob.count > 0

(***************************************************************************)
(* Claims about the RV32 6-stage core                                      *)
(***************************************************************************)

\* C3: after EX resolves a taken branch or jump, the next instruction to
\* enter EX is the one at the target; no instruction of the sequential path
\* (in particular not the word IF fetches in the resolving cycle) enters EX.
C3_NoSequentialAfterTaken ==
    c32.g_last_ex.valid => c32.g_last_ex.pc = c32.g_last_ex.exp_pc

\* C5: when an ECALL exit stops the simulation, the register result of every
\* instruction older than the ECALL is visible in the register file
\* (g_arch_regs holds the results in program order).
C5_ExitAfterOlderRetired ==
    c32.g_exit => \A r \in Regs : getValue(c32.regs, r) = getValue(c32.g_arch_regs, r)

(***************************************************************************)
(* Claims about the 2-stage cores                                          *)
(***************************************************************************)

C7_MepcIsOldestUnexecuted ==
    (core = "P64_2" /\ p2.g_trap.valid) => p2.g_trap.mepc = p2.g_trap.oldest_pc

\* What one poll may do, from the state before it to the state after it.
PollOK(pre, post) ==
    IF pre.interrupt /\ pre.mie /\ ~pre.meip
    THEN /\ post.meip
         /\ post.mepc = pre.PC
         /\ post.PC = pre.mtvec
         /\ ~post.latch.valid
         /\ ~post.latch_next.valid
    ELSE /\ post.mepc = pre.mepc
         /\ post.mcause = pre.mcause
         /\ post.PC = pre.PC
         /\ post.latch = pre.latch
         /\ post.latch_next = pre.latch_next
         /\ post.meip => pre.meip

\* C8: a poll of a 2-stage core (cpu_process_IRQ) enters the trap exactly when
\* an interrupt is pending, mstatus.MIE = 1 and mip.MEIP = 0; it then sets
\* MEIP, writes the PC to mepc, sets PC to mtvec and invalidates the latches.
\* Every other poll leaves mepc, mcause, PC and the latches as they were.
C8_PollEntersTrapOnlyWhenEnabled ==
    /\ core = "P64_2" => PollOK(p2.g_pre, p2.g_post)
    /\ core = "P64_2_Cycle" => PollOK(pc2.g_pre, pc2.g_post)
    /\ core = "P32_2_AT" => PollOK(at2.g_pre, at2.g_post)

\* A poll has just entered the trap from an executing pipeline.
C8_Witness ==
    /\ core = "P64_2"
    /\ p2.g_pre.interrupt /\ p2.g_pre.mie /\ ~p2.g_pre.meip
    /\ p2.g_pre.latch.valid
    /\ p2.g_post.meip
    /\ p2.g_post.PC = p2.g_pre.mtvec
    /\ p2.g_post.PC # p2.g_pre.PC

\* C10: on trap entry mcause has the top bit of the XLEN-wide register set:
\* bit 63 on the RV64 cores, bit 31 on the RV32 core.
C10_McauseTopBit ==
    /\ (core = "P64_2" /\ p2.g_trap.valid) => 63 \in p2.csr.mcause
    /\ (core = "P64_2_Cycle" /\ pc2.g_trap.valid) => 63 \in pc2.csr.mcause
    /\ (core = "P32_2_AT" /\ at2.g_trap.valid) => 31 \in at2.csr.mcause

(***************************************************************************)
(* Claims about interrupts on the 6-stage cores                            *)
(***************************************************************************)

\* C9: when the IRQ line has been asserted while mstatus.MIE = 1 and the
\* pending bit of mip is clear, the 6-stage core eventually enters the trap
\* (mip.MEIP set, mcause written, fetch redirected to mtvec).
C9_IrqEventuallyTaken ==
    (c64.interrupt /\ c64.csr.mstatus_mie /\ ~c64.csr.mip_meip)
        ~> (c64.csr.mip_meip \/ c64.csr.mcause # {})

(***************************************************************************)
(* Claims about the bus fabric, the memory and the memory interface        *)
(***************************************************************************)

\* C11: when main memory rejects a transaction that the fabric routed to it
\* (ADDRESS_ERROR, BURST_ERROR), the initiator finds that error status in the
\* transaction and the failure is reported; the initiator finds OK only when
\* the access succeeded.
C11_MemoryErrorReachesInitiator ==
    "memory" \in g_bus.last.delivered =>
        /\ g_bus.last.target_status \in {"ADDRESS_ERROR", "BURST_ERROR"} =>
              /\ g_bus.last.status = g_bus.last.target_status
              /\ g_bus.last.reported
        /\ g_bus.last.status = "OK" => g_bus.last.target_status = "OK"

\* C12: a write of a non-zero 32-bit value to the to-host address 0x80001000
\* requests the end of the simulation and completes with status OK.
C12_ToHostWriteStopsWithOK ==
    ( /\ g_bus.last.cmd = "WRITE"
      /\ g_bus.last.address = Adr(TOHOST_WORD, 0)
      /\ g_bus.last.len = 4
      /\ NonZero4(g_bus.last.data) ) =>
        /\ g_bus.last.stop
        /\ g_bus.last.status = "OK"

\* The register of the DMA at a bus address.
DmaRegAt(adr) ==
    IF adr.b # 0 THEN "none"
    ELSE IF adr.w = DMA_BASE_ADDRESS THEN "src"
    ELSE IF adr.w = DMA_BASE_ADDRESS + 1 THEN "dst"
    ELSE IF adr.w = DMA_BASE_ADDRESS + 2 THEN "len"
    ELSE IF adr.w = DMA_BASE_ADDRESS + 3 THEN "control"
    ELSE "none"

\* C13: a 4-byte write on the bus at 0x30000000 + 0x0, 0x4, 0x8, 0xC sets the
\* DMA register src, dst, len, control (a control write may have had its
\* start bit cleared by the transfer it started), and a 4-byte read that
\* follows at the same bus address returns the register's value.
C13_DmaRegistersAtBusAddresses ==
    LET op == g_bus.last
        reg == DmaRegAt(op.address)
    IN  (reg # "none" /\ op.len = 4) =>
          /\ op.cmd = "WRITE" =>
                dma[reg] \in {SubSeq(op.data, 1, 4), StartCleared(SubSeq(op.data, 1, 4))}
          /\ (op.cmd = "READ" /\ op.after_wr) =>
                /\ SubSeq(op.data, 1, 4) = dma[reg]
                /\ SubSeq(op.data, 1, 4) \in {op.written, StartCleared(op.written)}

\* The address map (spec 6.2; BusCtrl.h and the range tests of b_transport),
\* in words.
AddressMap ==
    {[target |-> "clint", base |-> CLINT_BASE_ADDRESS, words |-> 16384],
     [target |-> "plic", base |-> PLIC_BASE_ADDRESS, words |-> 1048576],
     [target |-> "uart", base |-> UART0_BASE_ADDRESS, words |-> 64],
     [target |-> "dma", base |-> DMA_BASE_ADDRESS, words |-> 1024],
     [target |-> "trace", base |-> TRACE_MEMORY_ADDRESS, words |-> 1],
     [target |-> "timer", base |-> TIMER_MEMORY_ADDRESS_LO, words |-> 4],
     [target |-> "syscall", base |-> SYSCALL_BASE_ADDRESS, words |-> 1024]}

Hits(adr) == {r \in AddressMap : adr.w >= r.base /\ adr.w - r.base < r.words}

RangesDisjoint ==
    \A r1, r2 \in AddressMap :
        r1 # r2 => (r1.base + r1.words <= r2.base \/ r2.base + r2.words <= r1.base)

\* C14 as stated: every bus transaction is delivered to at most one target,
\* selected by its address alone: the peripheral whose range contains the
\* address, main memory when the address is in no peripheral range and is
\* not a termination address; no address is matched by two ranges.
C14_TargetByAddressAlone ==
    LET op == g_bus.last
    IN  /\ RangesDisjoint
        /\ op.fn \notin {"none", "dmi_read"} =>
              /\ Cardinality(op.delivered) <= 1
              /\ Cardinality(Hits(op.address)) <= 1
              /\ op.delivered =
                    IF Hits(op.address) # {}
                    THEN {r.target : r \in Hits(op.address)}
                    ELSE IF op.address.w \in {TOHOST_WORD, TO_HOST_ADDRESS} THEN {}
                    ELSE {"memory"}

\* C14 amended: every bus transaction is delivered to at most one target:
\* none when it ends the simulation (any access to the word at 0x90000000, a
\* write of a non-zero word to 0x80001000), else the peripheral whose range
\* contains the address, else main memory, which also takes the other
\* accesses to 0x80001000; no address is matched by two ranges.
C14_TargetByAddressUnlessTerminating ==
    LET op == g_bus.last
    IN  /\ RangesDisjoint
        /\ op.fn \notin {"none", "dmi_read"} =>
              /\ Cardinality(op.delivered) <= 1
              /\ Cardinality(Hits(op.address)) <= 1
              /\ op.stop <=>
                    \/ op.address.w = TO_HOST_ADDRESS
                    \/ /\ op.address.w = TOHOST_WORD
                       /\ op.cmd = "WRITE"
                       /\ op.len >= 4
                       /\ NonZero4(op.data)
              /\ op.delivered =
                    IF op.stop THEN {}
                    ELSE IF Hits(op.address) # {}
                    THEN {r.target : r \in Hits(op.address)}
                    ELSE {"memory"}

\* A read of the to-host word reached main memory, and an access to the last
\* byte of the UART range reached the UART.
C14_Witness ==
    \/ /\ g_bus.last.address = Adr(TOHOST_WORD, 0)
       /\ g_bus.last.cmd = "READ"
       /\ g_bus.last.delivered = {"memory"}
    \/ /\ g_bus.last.address = Adr(UART0_BASE_ADDRESS + 63, 3)
       /\ g_bus.last.delivered = {"uart"}

\* C15: at an address in no peripheral range and not a termination address,
\* for each width in {1, 2, 4, 8}, a write64 followed by a read64 of the same
\* address and width returns the written bytes (the rest of the result zero).
\* Stated here for the accesses that lie inside the memory array.
C15_MemoryRoundTrip ==
    LET op == g_bus.last
    IN  ( /\ op.fn = "readDataMem64"
          /\ op.after_wr
          /\ Hits(op.address) = {}
          /\ op.address.w \notin {TOHOST_WORD, TO_HOST_ADDRESS}
          /\ op.address.w < Memory_SIZE \div 4
          /\ 4 * op.address.w + op.address.b + op.len <= Memory_SIZE ) =>
            /\ SubSeq(op.data, 1, op.len) = op.written
            /\ \A i \in (op.len + 1) .. 8 : op.data[i] = 0

\* C17: a write to main memory that modifies bytes inside the DMI region
\* granted to the instruction initiator makes the initiator drop its cached
\* DMI pointer.
C17_WriteInvalidatesDmi ==
    ( /\ g_bus.last.cmd = "WRITE"
      /\ g_bus.last.modified
      /\ g_bus.last.dmi_before ) => ~plat.dmi_ptr_valid

\* C16: in CPURV64P2_Cycle the instruction word that IF writes into
\* if_ex_latch_next for a pc is the word stored in memory at that pc, on the
\* DMI fast path and on the bus path alike.
C16_FetchedWordIsMemoryWord ==
    (core = "P64_2_Cycle" /\ pc2.if_ex_latch_next.valid) =>
        pc2.if_ex_latch_next.instruction =
            fetch_instruction(imem, pc2.if_ex_latch_next.pc)

(***************************************************************************)
(* Claims about the DMA engine                                             *)
(***************************************************************************)
InWindow(v, len) == AdrOf(v).w < MemWin \div 4 /\ U32(v) + len <= MemWin

\* C18: when a transfer with len > 0, src and dst in main memory and the
\* master port bound to the bus fabric has run to its end and control bit 0
\* is 0, the len bytes at dst equal the len bytes at src.
C18_DmaCopiesSrcToDst ==
    LET x == g_bus.xfer
    IN  ( /\ dma.pos = "idle"
          /\ dma.bound = "bus"
          /\ x.completed
          /\ dma.control[1] % 2 = 0
          /\ x.len > 0
          /\ InWindow(x.src, x.len)
          /\ InWindow(x.dst, x.len) ) =>
            \A i \in 0 .. (x.len - 1) :
                MainMemory.mem[U32(x.dst) + i] = MainMemory.mem[U32(x.src) + i]

\* C19: when the bus read or the bus write of a transfer came back with a
\* status other than OK, bit 0 of control and the in_flight flag are clear
\* when the control write returns.
C19_ErrorClearsStartBit ==
    LET x == g_bus.xfer
    IN  ( /\ x.returned
          /\ \/ x.read_status \notin {"OK", "NONE"}
             \/ x.write_status \notin {"OK", "NONE"} ) =>
            /\ ~x.start_at_return
            /\ ~x.in_flight_at_return

\* C20: in every transfer with len > 0 there is a pipeline cycle, between the
\* start of the bus read and the end of the bus write, whose IF stage finds
\* dma_in_flight true and stalls.
C20_IfSeesDmaInFlight ==
    (g_bus.xfer.completed /\ g_bus.xfer.len > 0) => g_bus.xfer.if_seen >= 1

(***************************************************************************)
(* Claims about the bookkeeping of the RV64 6-stage core                   *)
(***************************************************************************)

\* The registers that are the destination of an instruction that has been
\* issued (holds a ROB entry) and has not retired.
PendingDest(s) == {s.g_inflight[k].rd : k \in 1 .. Len(s.g_inflight)}

\* C22: at every cycle boundary scoreboard[i] is clear for every register i
\* that is not the destination of an issued-but-unretired instruction: no
\* busy bit outlives its writer, also across branch flushes and stalls.
C22_NoBusyBitWithoutWriter ==
    \A i \in Regs : i \notin PendingDest(c64) => ~c64.scoreboard[i]

\* Witness of C22: an instruction that had to wait at Issue for its source
\* register is issued in the cycle after the writer of that register
\* retired and released the bit, and nothing else is in flight.
C22_Witness ==
    /\ c64.stats.stalls > 0
    /\ c64.g_last_issue.valid
    /\ c64.g_retire_count > 0
    /\ Len(c64.g_inflight) = 1
    /\ \A i \in Regs : i \notin PendingDest(c64) => ~c64.scoreboard[i]
    /\ \E i \in Regs \ {0} : c64.regs[i] # CPU64_0(0, FALSE).regs[i]

\* C23: at every cycle boundary the store buffer holds no valid entry
\* whenever the ROB is empty.
C23_StoreBufferEmptyWithRob ==
    rob_is_empty(c64.rob) => \A i \in 0 .. (SB_SIZE - 1) : ~c64.store_buffer[i].valid

\* Witness of C23: the ROB is empty after a store went through the store
\* buffer and was written to memory at commit.
C23_Witness ==
    /\ rob_is_empty(c64.rob)
    /\ c64.g_bus_writes > 0
    /\ \A i \in 0 .. (SB_SIZE - 1) : ~c64.store_buffer[i].valid

\* C30: at every cycle boundary, for every register i in 1..31, if some
\* instruction with rd = i has been issued and has not yet retired then
\* scoreboard[i] is set, however many such instructions are in flight.
C30_BusyBitWhileWriterInFlight ==
    \A i \in Regs \ {0} : i \in PendingDest(c64) => c64.scoreboard[i]

(***************************************************************************)
(* Claims that compare the cores                                           *)
(***************************************************************************)

\* C24: for the same program the number of instructions retired by the LT
\* 2-stage pipeline up to program termination equals the number retired by
\* the 6-stage pipeline.
C24_RetiredCountsAgree ==
    (p2.stopped /\ c64.stopped) => p2.perf_instructions = c64.stats.instructions

(***************************************************************************)
(* Claims about ECALL and unknown instruction words on the 6-stage cores   *)
(***************************************************************************)

\* C25: when an ECALL reaches EX in a 6-stage pipeline and the value of a7
\* (x17) written by the latest older instruction in program order is 1 or
\* 93, a simulation stop is requested (g_arch_regs holds the results in
\* program order; stated for the RV32 core, at the end of the cycle in
\* which the ECALL is in EX).
C25_EcallExitStops ==
    (/\ c32.g_last_ex.valid
     /\ fetch_instruction(imem, c32.g_last_ex.pc) = ECALL
     /\ getValue(c32.g_arch_regs, 17) \in {1, 93})
    => c32.stopped

\* C26: an instruction word that the decode/execute logic of the 6-stage
\* pipeline does not recognise executes as a NOP: when it retires (the PC
\* having advanced past it) it has changed no general-purpose register and
\* no memory location.
C26_UnknownWordIsNop ==
    (/\ c64.g_last_retire.valid
     /\ fetch_instruction(imem, c64.g_last_retire.pc).opcode \notin KnownOpcodes)
    => /\ c64.g_last_retire.regs_same
       /\ c64.g_last_retire.mem_same

\* C27: in every pipeline variant an instruction fetch whose bus transaction
\* returns an error status is fatal: the pipeline requests a simulation stop
\* and emits a diagnostic that includes the faulting PC.  Stated for the
\* RV64 6-stage core at the end of the cycle of the failed fetch.
C27_FetchErrorIsFatal ==
    c64.g_fetch_error.valid => (c64.stopped /\ c64.g_fetch_error.reported)

(***************************************************************************)
(* PLIC (src/inc/PLIC.h).  A 32-bit word is kept as the set of the         *)
(* positions of its one bits; WordVal gives its value.                     *)
(***************************************************************************)
MAX_SOURCES == 32

RECURSIVE WordVal(_)
WordVal(S) ==
    IF S = {} THEN 0
    ELSE LET i == CHOOSE x \in S : TRUE IN 2 ^ i + WordVal(S \ {i})

PLIC_0 ==
    [priorities |-> [i \in 0 .. (MAX_SOURCES - 1) |-> 0],
     pending_bits |-> {}, enabled_bits |-> {}, threshold |-> 0, claim_complete |-> 0,
     g_last |-> [op |-> "none", data |-> 0]]

PLIC_raise(s, id) ==
    IF id > 0 /\ id < MAX_SOURCES
    THEN [s EXCEPT !.pending_bits = @ \cup {id}, !.g_last = [op |-> "other", data |-> 0]]
    ELSE [s EXCEPT !.g_last = [op |-> "other", data |-> 0]]

\* A faulty scan that takes the first pending and enabled source above the
\* threshold, whatever its priority.
RECURSIVE PLIC_best_first(_, _, _, _)
PLIC_best_first(s, i, best, best_prio) ==
    IF i >= MAX_SOURCES THEN best
    ELSE IF /\ i \in s.pending_bits /\ i \in s.enabled_bits
            /\ best = 0 /\ s.priorities[i] > s.threshold
         THEN PLIC_best_first(s, i + 1, i, s.priorities[i])
         ELSE PLIC_best_first(s, i + 1, best, best_prio)

\* The scan of the claim read, from source i on.
RECURSIVE PLIC_best(_, _, _, _)
PLIC_best(s, i, best, best_prio) ==
    IF i >= MAX_SOURCES THEN best
    ELSE IF /\ i \in s.pending_bits /\ i \in s.enabled_bits
            /\ s.priorities[i] > best_prio /\ s.priorities[i] > s.threshold
         THEN PLIC_best(s, i + 1, i, s.priorities[i])
         ELSE PLIC_best(s, i + 1, best, best_prio)

\* b_transport.  data is the word written (ignored by reads).  A completion
\* that writes a value of 32 or more shifts by more than the width of the
\* word, which is undefined: sh says whether the build reduces the shift
\* count modulo 32 or shifts the bit out.
PLIC_b_transport(s, cmd, addr, data, len, sh) ==
    LET other == [op |-> "other", data |-> 0]
    IN  IF len # 4 THEN [s EXCEPT !.g_last = other]
        ELSE IF addr < 4096
        THEN IF cmd = "WRITE" /\ (addr \div 4) < MAX_SOURCES
             THEN [s EXCEPT !.priorities[addr \div 4] = WordVal(data \cap {0, 1, 2}),
                            !.g_last = other]
             ELSE [s EXCEPT !.g_last = other]
        ELSE IF addr = 4096 THEN [s EXCEPT !.g_last = other]
        ELSE IF addr = 8192
        THEN IF cmd = "WRITE" THEN [s EXCEPT !.enabled_bits = data, !.g_last = other]
             ELSE [s EXCEPT !.g_last = other]
        ELSE IF addr = 2097152
        THEN IF cmd = "WRITE"
             THEN [s EXCEPT !.threshold = WordVal(data \cap {0, 1, 2}), !.g_last = other]
             ELSE [s EXCEPT !.g_last = other]
        ELSE IF addr = 2097156
        THEN IF cmd = "READ"
             THEN LET best == PLIC_best(s, 1, 0, 0)
                  IN  [s EXCEPT !.claim_complete = best,
                                !.pending_bits = IF best # 0 THEN @ \ {best} ELSE @,
                                !.g_last = [op |-> "claim", data |-> best]]
             ELSE LET n == WordVal(data)
                  IN  [s EXCEPT !.pending_bits =
                                    IF n < 32 THEN @ \ {n}
                                    ELSE IF sh THEN @ \ {n % 32} ELSE @,
                                !.claim_complete = 0,
                                !.g_last = other]
        ELSE [s EXCEPT !.g_last = other]

(***************************************************************************)
(* Specification of the PLIC: sources are raised and the register map is   *)
(* read and written in any order.  plat carries the PLIC.                  *)
(***************************************************************************)
RaiseIds == {0, 1, 2, 3, 32}

PlicAddrs == {4, 8, 4096, 8192, 2097152, 2097156, 2097160}

PlicWords == {{}, {1}, {1, 2}, {1, 2, 3}, {5}}

\* The transactions tried: every read, every write of every word (with both
\* outcomes of an over-wide shift), and one access of a wrong length.
PlicAccesses ==
    {[cmd |-> "READ", addr |-> a, data |-> {}, len |-> 4, sh |-> FALSE] : a \in PlicAddrs}
    \cup {[cmd |-> "WRITE", addr |-> a, data |-> w, len |-> 4, sh |-> FALSE] :
              a \in PlicAddrs, w \in PlicWords}
    \cup {[cmd |-> "WRITE", addr |-> 2097156, data |-> {5}, len |-> 4, sh |-> TRUE],
          [cmd |-> "READ", addr |-> 2097156, data |-> {}, len |-> 8, sh |-> FALSE]}

InitPlic ==
    /\ core = "P64_6"
    /\ MainMemory = Memory0(FALSE, FALSE)
    /\ dma = DMA0("bus")
    /\ plat = [dmi_ptr_valid |-> FALSE, sc_stop |-> FALSE, plic |-> PLIC_0]
    /\ g_bus = GBus0
    /\ imem = [k \in 0 .. (ProgLen - 1) |-> ZeroWord]
    /\ c64 = CPU64_0(0, FALSE)
    /\ c32 = CPU32_0(0, FALSE)
    /\ p2 = CPU2_0(0, FALSE, 0)
    /\ pc2 = CPU_Cycle_0(0, FALSE, 0, FALSE)
    /\ at2 = CPU_AT_0(0, FALSE, 0)

PlicRaise ==
    /\ \E id \in RaiseIds : plat' = [plat EXCEPT !.plic = PLIC_raise(@, id)]
    /\ UNCHANGED <<imem, core, c64, c32, p2, pc2, at2, MainMemory, dma, g_bus>>

PlicAccess ==
    /\ \E a \in PlicAccesses :
          plat' = [plat EXCEPT !.plic =
                       PLIC_b_transport(@, a.cmd, a.addr, a.data, a.len, a.sh)]
    /\ UNCHANGED <<imem, core, c64, c32, p2, pc2, at2, MainMemory, dma, g_bus>>

NextPlic == PlicRaise \/ PlicAccess

SpecPlic == InitPlic /\ [][NextPlic]_vars

\* The sources a claim read may return in state s.
PlicCandidates(s) ==
    {i \in 0 .. (MAX_SOURCES - 1) :
        /\ i \in s.pending_bits /\ i \in s.enabled_bits
        /\ s.priorities[i] > s.threshold}

\* C28: a read of the claim register returns the id of the pending and
\* enabled source of highest priority among those whose priority is
\* strictly greater than threshold (0 when there is none), clears exactly
\* that source's pending bit and records it as claimed; no other pending
\* bit changes.
C28_ClaimRead ==
    [][plat'.plic.g_last.op = "claim" =>
          LET s == plat.plic
              r == plat'.plic.g_last.data
              C == PlicCandidates(s)
          IN  /\ IF C = {} THEN r = 0
                 ELSE r \in C /\ \A j \in C : s.priorities[j] <= s.priorities[r]
              /\ plat'.plic.pending_bits = s.pending_bits \ {r}
              /\ plat'.plic.claim_complete = r]_vars

C28_Witness ==
    /\ plat.plic.g_last.op = "claim"
    /\ plat.plic.g_last.data = 2
    /\ plat.plic.claim_complete = 2
    /\ plat.plic.pending_bits = {1, 3}
    /\ plat.plic.enabled_bits = {1, 2, 3}
    /\ plat.plic.priorities[2] > plat.plic.priorities[1]
    /\ plat.plic.priorities[1] > plat.plic.threshold

HoldPrograms == [0 .. (ProgLen - 1) -> {ADDI(1, 0, 5), ADDI(3, 0, 42), ECALL}]

InitDmaHold ==
    /\ core = "P64_6"
    /\ PlatformIdle
    /\ imem \in HoldPrograms
    /\ c64 = CPU64_0(0, FALSE)
    /\ c32 = CPU32_0(0, FALSE)
    /\ p2 = CPU2_0(0, FALSE, 0)
    /\ pc2 = CPU_Cycle_0(0, FALSE, 0, FALSE)
    /\ at2 = CPU_AT_0(0, FALSE, 0)

DmaTaskBegin ==
    /\ ~dma.in_flight
    /\ dma' = [dma EXCEPT !.in_flight = TRUE]
    /\ UNCHANGED <<imem, core, c64, c32, p2, pc2, at2, MainMemory, plat, g_bus>>

DmaTaskEnd ==
    /\ dma.in_flight
    /\ dma' = [dma EXCEPT !.in_flight = FALSE]
    /\ UNCHANGED <<imem, core, c64, c32, p2, pc2, at2, MainMemory, plat, g_bus>>

NextDmaHold == Cycle64 \/ DmaTaskBegin \/ DmaTaskEnd

SpecDmaHold == InitDmaHold /\ [][NextDmaHold]_vars

C31_StoreWrittenAtOwnCommit ==
    [][c64'.stats.cycles # c64.stats.cycles =>
          LET r  == c64'.g_last_retire
              st == r.valid /\ fetch_instruction(imem, r.pc).opcode = OP_STORE
              x  == c64'.g_last_ex
          IN  /\ c64'.g_bus_writes = c64.g_bus_writes + (IF st THEN 1 ELSE 0)
              /\ r.bus_write = st
              /\ ~st => c64'.mem = c64.mem
              /\ st => /\ rob_head_ready(c64.rob)
                       /\ c64.rob.head = r.rob_index
                       /\ rob_get_head(c64.rob).pc = r.pc
                       /\ sb_match(c64.store_buffer, r.rob_index) # {}
                       /\ sb_match(c64'.store_buffer, r.rob_index) = {}
              /\ (x.valid /\ fetch_instruction(imem, x.pc).opcode = OP_STORE) =>
                     \E i \in 0 .. (SB_SIZE - 1) :
                        /\ c64'.store_buffer[i].valid
                        /\ c64'.rob.entries[c64'.store_buffer[i].rob_index].valid
                        /\ c64'.rob.entries[c64'.store_buffer[i].rob_index].pc = x.pc]_vars

C31_Witness ==
    /\ c64.g_last_retire.valid
    /\ c64.g_last_retire.bus_write
    /\ ~c64.g_last_retire.mem_same
    /\ c64.g_bus_writes = 2
    /\ c64.mem[64] # 0

\* C32: whenever a load performs its memory read in EX, the bus write of
\* every store that is older in program order has already been performed:
\* no store is waiting in the store buffer when the load reads, and no
\* instruction issued before the load and still in flight is a store.
C32_LoadAfterOlderStores ==
    (/\ c64.g_last_ex.valid
     /\ fetch_instruction(imem, c64.g_last_ex.pc).opcode = OP_LOAD)
    => /\ c64.g_last_ex.sb_pending = 0
       /\ \A k \in 1 .. Len(c64.g_inflight) :
             fetch_instruction(imem, c64.g_inflight[k].pc).opcode = OP_STORE
             => \E j \in 1 .. (k - 1) : c64.g_inflight[j].pc = c64.g_last_ex.pc

\* A load reads in the very cycle whose Commit wrote the store before it.
C32_Witness ==
    /\ c64.g_last_ex.valid
    /\ fetch_instruction(imem, c64.g_last_ex.pc).opcode = OP_LOAD
    /\ c64.g_last_retire.valid
    /\ c64.g_last_retire.bus_write
    /\ ~c64.g_last_retire.mem_same
    /\ c64.g_last_ex.sb_pending = 0


(***************************************************************************)
(* The two 6-stage cores side by side: the same program image is run on    *)
(* the RV64 core and on the RV32 core, one clock cycle of each per step.   *)
(* The programs mix producers, consumers of their results, loads, stores   *)
(* and a taken branch, so that scoreboard stalls of several cycles occur.  *)
(***************************************************************************)
SixPrograms ==
    [0 .. (ProgLen32 - 1) ->
        {ADDI(1, 0, 5), ADD(3, 1, 1), BEQ(0, 0, 8), LW(3, 0, 64), SW(1, 0, 64), ECALL}]

InitSix ==
    /\ core = "P64_6, P32_6"
    /\ PlatformIdle
    /\ imem \in SixPrograms
    /\ c64 = CPU64_0(0, FALSE)
    /\ c32 = CPU32_0(0, FALSE)
    /\ p2 = CPU2_0(0, FALSE, 0)
    /\ pc2 = CPU_Cycle_0(0, FALSE, 0, FALSE)
    /\ at2 = CPU_AT_0(0, FALSE, 0)

CycleSix ==
    LET run64 == ~c64.stopped /\ c64.stats.cycles < MaxCycles32
        run32 == ~c32.stopped /\ c32.stats.cycles < MaxCycles32
    IN  /\ core = "P64_6, P32_6"
        /\ run64 \/ run32
        /\ c64' = IF run64 THEN cycle_thread64(c64, imem) ELSE c64
        /\ c32' = IF run32 THEN cycle_thread32(c32, imem) ELSE c32
        /\ UNCHANGED <<busvars, imem, core, p2, pc2, at2>>

NextSix == CycleSix

SpecSix == InitSix /\ [][NextSix]_vars

\* C33: scoreboard stalls neither drop nor duplicate instructions.  On the
\* RV64 core every issued instruction is the one the program order expects
\* next; on the RV32 core every issued instruction is the oldest instruction
\* that has entered the IF->ID latch and has been neither issued nor flushed,
\* and the instructions still waiting are exactly the held latches, in order.
C33_StallsKeepFetchOrder ==
    /\ c64.g_last_issue.valid => c64.g_last_issue.pc = c64.g_last_issue.exp_pc
    /\ c32.g_last_issue.valid => c32.g_last_issue.in_order
    /\ Len(c32.g_front) <= 2
    /\ (c32.stall_fetch /\ ~c32.flush_pipeline) =>
          /\ c32.g_front # <<>>
          /\ c32.id_is_next.valid /\ c32.id_is_next.pc = Head(c32.g_front)

C33_Witness ==
    /\ c64.g_max_wait >= 1 /\ c64.stats.stalls >= 2 /\ c64.g_issue_count >= 4
    /\ c32.g_max_wait >= 2 /\ c32.g_issued >= 4
    /\ c32.g_last_issue.valid /\ c32.g_last_issue.in_order


\* The run of a core has ended: sc_stop() was requested, or the bound on the
\* number of cycles explored is reached.
End64 == c64.stopped \/ c64.stats.cycles >= MaxCycles32

End32 == c32.stopped \/ c32.stats.cycles >= MaxCycles32

\* C34: an instruction waiting in Issue is issued after finitely many cycles.
\* A stall lasts at most one cycle on the RV64 core and two on the RV32 core,
\* because every busy scoreboard bit belongs to an instruction that is still
\* in flight between Issue and Commit/WB: on the RV64 core it was issued at
\* most two cycles ago and retires at the next Commit, on the RV32 core it
\* sits in one of the three latches that lead to WB without ever stalling.
C34_IssueEventually ==
    /\ c64.g_stall_run <= 1
    /\ c32.g_stall_run <= 2
    /\ \A i \in Regs : c64.scoreboard[i] =>
          \E k \in 1 .. Len(c64.g_inflight) : c64.g_inflight[k].rd = i
    /\ \A k \in 1 .. Len(c64.g_inflight) :
          c64.stats.cycles - c64.g_inflight[k].cycle <= 2
    /\ \A i \in Regs : c32.scoreboard[i] =>
          \/ c32.is_ex_next.valid /\ c32.is_ex_next.rd = i
          \/ c32.ex_mem_next.valid /\ c32.ex_mem_next.rd = i
          \/ c32.mem_wb_next.valid /\ c32.mem_wb_next.rd = i

C34_Witness ==
    /\ c64.g_last_issue.valid /\ c64.g_last_issue.waited = 1 /\ ~End64
    /\ \A i \in Regs : ~c64.scoreboard[i] \/ i = c64.issue_ex_next.rd
    /\ c32.g_max_wait = 2 /\ c32.g_retired >= 3 /\ ~End32


(***************************************************************************)
(* Claims about interrupts and the executor's PC on the 2-stage cores      *)
(***************************************************************************)

\* C35: every interrupt request raised through call_interrupt is taken once
\* mstatus.MIE = 1.  cpu_process_IRQ is the only code that enters the trap,
\* and a poll that finds a request pending with MIE = 1 either enters the
\* trap or returns without changing anything; so the request is taken only
\* if, in every reachable state with a request pending and MIE = 1, the poll
\* consumes the request.
C35_PendingRequestIsTaken ==
    /\ (core = "P64_2" /\ p2.interrupt /\ p2.csr.mstatus_mie)
          => ~cpu_process_IRQ_P2(p2).interrupt
    /\ (core = "P64_2_Cycle" /\ pc2.interrupt /\ pc2.csr.mstatus_mie)
          => ~cpu_process_IRQ_Cycle(pc2).interrupt
    /\ (core = "P32_2_AT" /\ at2.interrupt /\ at2.csr.mstatus_mie)
          => ~cpu_process_IRQ_AT(at2).interrupt


\* C36: when EX_stage of the 2-stage core hands the instruction of the IF->EX
\* latch to the executor, the PC of the register file (reg_pc, the value
\* register_bank->getPC() returns at that moment) is the instruction's own
\* address, latch.pc.
C36_ExecutorSeesOwnPC ==
    (core = "P64_2" /\ p2.g_last_ex.valid) => p2.g_last_ex.reg_pc = p2.g_last_ex.pc


(***************************************************************************)
(* Claims about the DMA start bit, the reorder buffer and the store buffer *)
(***************************************************************************)

\* C37: once a write to the DMA control register has returned (the engine is
\* back to idle), bit 0 of control is 0, whatever len holds, so that a
\* program polling control & 1 sees the transfer complete.
C37_StartBitClearAfterWrite ==
    (core = "DMA" /\ dma.pos = "idle") => dma.control[1] % 2 = 0


(***************************************************************************)
(* The reorder buffer on its own: allocate, complete, retire and flush     *)
(* called in any order, as a client of ReorderBuffer<32> may call them.    *)
(* Entries are completed at the head; the head advances at most            *)
(* MaxRobRetires times between two flushes.                                *)
(***************************************************************************)
InitRob ==
    /\ core = "ROB"
    /\ PlatformIdle
    /\ imem = [i \in 0 .. (ProgLen - 1) |-> ZeroWord]
    /\ c64 = CPU64_0(0, FALSE)
    /\ c32 = CPU32_0(0, FALSE)
    /\ p2 = CPU2_0(0, FALSE, 0)
    /\ pc2 = CPU_Cycle_0(0, FALSE, 0, FALSE)
    /\ at2 = CPU_AT_0(0, FALSE, 0)

RobAllocate ==
    /\ core = "ROB"
    /\ c64' = [c64 EXCEPT !.rob = rob_allocate(@)]
    /\ UNCHANGED <<busvars, imem, core, c32, p2, pc2, at2>>

RobComplete ==
    /\ core = "ROB"
    /\ \E index \in {c64.rob.head, -1} :
          c64' = [c64 EXCEPT !.rob = rob_complete(@, index, 7, 1)]
    /\ UNCHANGED <<busvars, imem, core, c32, p2, pc2, at2>>

RobRetire ==
    /\ core = "ROB"
    /\ c64.rob.head < MaxRobRetires
    /\ c64' = [c64 EXCEPT !.rob = rob_retire(@)]
    /\ UNCHANGED <<busvars, imem, core, c32, p2, pc2, at2>>

RobFlush ==
    /\ core = "ROB"
    /\ c64' = [c64 EXCEPT !.rob = rob_flush(@)]
    /\ UNCHANGED <<busvars, imem, core, c32, p2, pc2, at2>>

NextRob == RobAllocate \/ RobComplete \/ RobRetire \/ RobFlush

SpecRob == InitRob /\ [][NextRob]_vars

\* C38: after any sequence of allocate, complete, retire and flush, head and
\* tail of the reorder buffer are equal exactly when the buffer is empty.
C38_HeadEqTailIffEmpty ==
    core = "ROB" => ((c64.rob.head = c64.rob.tail) <=> rob_is_empty(c64.rob))


\* C39: in a cycle of the RV64 6-stage core in which the ROB head is valid and
\* ready when Commit_stage runs, exactly one instruction retires and it is
\* the head: the retired-instruction counter goes up by one, head advances by
\* one entry and the entry that was the head is the one retired.  In every
\* other cycle nothing retires; the counter never goes up by two or more.
C39_OneRetirePerReadyHead ==
    [][c64'.stats.cycles # c64.stats.cycles =>
          LET h     == c64.rob.head
              ready == c64.rob.entries[h].valid /\ c64.rob.entries[h].ready
              n     == IF ready THEN 1 ELSE 0
              r     == c64'.g_last_retire
          IN  /\ c64'.stats.instructions = c64.stats.instructions + n
              /\ c64'.g_retire_count = c64.g_retire_count + n
              /\ c64'.rob.head = (h + n) % ROB_SIZE
              /\ c64'.rob.count =
                    c64.rob.count - n + (IF c64'.g_last_issue.valid THEN 1 ELSE 0)
              /\ r.valid = ready
              /\ ready => /\ r.rob_index = h
                          /\ r.pc = c64.rob.entries[h].pc
                          /\ ~c64'.rob.entries[h].valid]_vars

C39_Witness ==
    /\ c64.g_last_retire.valid /\ c64.g_last_issue.valid
    /\ c64.stats.instructions >= 3
    /\ c64.rob.count = 2
    /\ c64.rob.head = c64.stats.instructions


\* C40: on the RV64 6-stage core at most one store-buffer entry is valid at
\* a time.  A store that executes in EX finds the buffer empty, so add_store
\* has a free slot (it does not return -1), and after EX the one valid entry
\* is that store's, filed under its own ROB entry.
C40_StoreBufferHasFreeSlot ==
    LET held == {i \in 0 .. (SB_SIZE - 1) : c64.store_buffer[i].valid}
        x    == c64.g_last_ex
    IN  /\ Cardinality(held) <= 1
        /\ (x.valid /\ fetch_instruction(imem, x.pc).opcode = OP_STORE) =>
              /\ x.sb_pending = 0
              /\ Cardinality(held) = 1
              /\ \A i \in held :
                    /\ c64.store_buffer[i].rob_index \in 0 .. (ROB_SIZE - 1)
                    /\ c64.rob.entries[c64.store_buffer[i].rob_index].valid
                    /\ c64.rob.entries[c64.store_buffer[i].rob_index].is_store
                    /\ c64.rob.entries[c64.store_buffer[i].rob_index].pc = x.pc

C40_Witness ==
    /\ c64.g_last_ex.valid
    /\ fetch_instruction(imem, c64.g_last_ex.pc).opcode = OP_STORE
    /\ c64.g_bus_writes >= 1
    /\ \E i \in 0 .. (SB_SIZE - 1) : c64.store_buffer[i].valid

====
